---- MODULE Spec2Model ----
(***************************************************************************)
(* Model of the object enumeration of the Superior Cache ANalyzer:         *)
(* Stripe.storedObjects (serial generator), Stripe.parallelStoredObjects   *)
(* (worker pool + queue consumer), Stripe.parallelObjs (pool worker) and   *)
(* Span.__init__ (stripe list construction).                               *)
(*                                                                         *)
(* A directory row is the 5-tuple of 16-bit words <<w0,w1,w2,w3,w4>> (TLA+ *)
(* indices 1..5).  A Doc is what the span file holds at the place a row    *)
(* points to: its magic, hlen, totalLength and `info`, the outcome of      *)
(* Alternate.fromBuffer on the slice the code hands it (either the list of *)
(* requestURL() values of the parsed alternates, or "struct_error").       *)
(***************************************************************************)
EXTENDS Integers, Naturals, Sequences, FiniteSets, TLC

(* ----------------------------- bounds ---------------------------------- *)
\* rows of the directory (one bucket of 4 entries)
NumDirEntries == 4
\* at most this many rows of the directory are in use (nonzero)
MaxUsed == 3
\* largest value allowedProcesses() returns
MaxProcs == 3
\* at most this many file operations fail during one enumeration
MaxFaults == 2
\* stripes declared in the disk header of a span
MaxStripes == 3

\* Stripe.read is tried on stripes that start up to this many store blocks into
\* the span file
MaxStartBlocks == 2
\* and on every stripe length from one store block up to this many
MaxLenBlocks == 850

\* stripes in the blocks list of the span that is enumerated
MaxBlocks == 2

\* alternates serialised one after the other in the buffer given to
\* Alternate.fromBuffer
MaxAlts == 2

\* lines of a volume.config file
MaxLines == 3

\* the most pointer-sized slots of a heap behind its HDRHeap
MaxSlots == 3

\* the most objects unpackHeap is followed through
MaxRet == 6

(* ------------------------- program constants --------------------------- *)
\* 32-bit magic numbers are written as their two 16-bit halves <<high, low>>
\* Doc.MAGIC = 0x5F129B13
DocMAGIC == <<24338, 39699>>

\* Doc.CORRUPT_MAGIC = 0xDEADBABE
CORRUPT_MAGIC == <<57005, 47806>>

\* Stripe.MAGIC = 0xF1D0F00D
StripeMAGIC == <<61904, 61453>>

\* the value None put on the queue by a worker
None == <<>>

(* ------------------------------ helpers -------------------------------- *)
Range(s) == {s[i] : i \in DOMAIN s}

\* w & 0x3000, as the two bits (head, phase) it keeps
And3000(w) == ((w \div 4096) % 4) * 4096

\* directory[:,0] + (directory[:,1] & 0xFF) + directory[:,4] in uint16 arithmetic
RowSum16(d) == (d[1] + (d[2] % 256) + d[5]) % 65536

\* directory.dirOffset, in 512-byte cache blocks from contentOffset:
\* the raw offset d[0] + ((d[1] & 0xFF) << 16) + (d[4] << 24)
rawOffset(d) == d[1] + (d[2] % 256) * 65536 + d[5] * 16777216

dirOffset(d) == (rawOffset(d) - 1) * 512

\* Stripe.heads: non-zero rows whose head bit is set and whose phase bit is the stripe's
heads(dir, ph) ==
    LET nz == SelectSeq(dir, LAMBDA d : RowSum16(d) > 0)
    IN  IF ph THEN SelectSeq(nz, LAMBDA d : And3000(d[3]) = 12288)
        ELSE SelectSeq(nz, LAMBDA d : And3000(d[3]) = 8192)

\* parallelStoredObjects, first mask: rows with a non-zero offset sum
parNonZero(dir) == SelectSeq(dir, LAMBDA d : RowSum16(d) > 0)

\* parallelStoredObjects, second mask: the in-phase heads among them
parHeads(dir, ph) ==
    IF ph THEN SelectSeq(parNonZero(dir), LAMBDA d : And3000(d[3]) = 12288)
    ELSE SelectSeq(parNonZero(dir), LAMBDA d : And3000(d[3]) = 8192)

(* ------------------------------- inputs -------------------------------- *)
\* the rows that may stand at index i of the directory: an unused row, and rows
\* with raw offset i that are a head of phase 0, a head of phase 1, or no head
RowChoices(i) == { <<0, 0, 0, 0, 0>>, <<i, 0, 8192, 0, 0>>,
                   <<i, 0, 12288, 0, 0>>, <<i, 0, 4096, 0, 0>> }

RECURSIVE DirsUpTo(_)
\* the sequences of n rows, row i drawn from RowChoices(i)
DirsUpTo(n) ==
    IF n = 0 THEN {<<>>}
    ELSE {Append(d, r) : d \in DirsUpTo(n - 1), r \in RowChoices(n)}

\* directories of NumDirEntries rows of which at most MaxUsed are in use
Directories ==
    { d \in DirsUpTo(NumDirEntries) :
        Cardinality({i \in 1..NumDirEntries : d[i][1] # 0}) <= MaxUsed }

\* a Doc as read from the span file
MkDoc(m, h, t, e, a) == [magic |-> m, hlen |-> h, totalLength |-> t, infoErr |-> e, alts |-> a]

\* a first Doc (hlen > 0) with one alternate
FirstDoc1(i) == MkDoc(DocMAGIC, 200, 1000 * i, FALSE, <<10 * i + 1>>)

\* a first Doc with two alternates
FirstDoc2(i) == MkDoc(DocMAGIC, 200, 1000 * i, FALSE, <<10 * i + 1, 10 * i + 2>>)

\* a continuation Doc: hlen = 0, so the slice handed to the parser is empty
ContDoc(i) == MkDoc(DocMAGIC, 0, 1000 * i, FALSE, <<>>)

\* a Doc with the corrupt magic, whose bytes would otherwise parse
CorruptDoc(i) == MkDoc(CORRUPT_MAGIC, 200, 1000 * i, FALSE, <<10 * i + 1>>)

\* bytes that are no Doc at all
NonDoc(i) == MkDoc(<<0, 0>>, 200, 1000 * i, FALSE, <<10 * i + 1>>)

\* a first Doc whose alternates make Alternate.fromBuffer raise struct.error
BadInfoDoc(i) == MkDoc(DocMAGIC, 200, 1000 * i, TRUE, <<>>)

\* the kinds of Doc an in-phase head may point to: every kind for the serial
\* enumeration (rich); under the worker pool first Docs and corrupt Docs, with
\* two alternates only where row 1 points
DocChoices(i, rich) ==
    IF rich
    THEN {FirstDoc1(i), FirstDoc2(i), ContDoc(i), CorruptDoc(i), NonDoc(i), BadInfoDoc(i)}
    ELSE IF i = 1 THEN {FirstDoc1(i), FirstDoc2(i), CorruptDoc(i)}
         ELSE {FirstDoc1(i), CorruptDoc(i)}

\* is row d an in-phase head of a stripe of phase ph
InPhaseHead(d, ph) == d[1] # 0 /\ And3000(d[3]) = (IF ph THEN 12288 ELSE 8192)

RECURSIVE FilesUpTo(_, _, _, _)
\* span files for the first n rows of a directory: a Doc of the given kinds
\* where an in-phase head points, and a continuation Doc elsewhere
FilesUpTo(n, dir, ph, rich) ==
    IF n = 0 THEN {<<>>}
    ELSE {Append(f, x) : f \in FilesUpTo(n - 1, dir, ph, rich),
                         x \in IF InPhaseHead(dir[n], ph) THEN DocChoices(n, rich)
                               ELSE {ContDoc(n)}}

(* ------------------------------- state --------------------------------- *)
VARIABLES
    directory,  \* Stripe.directory: sequence of rows
    phase,      \* Stripe.phase (its truth value)
    file,       \* the Doc the span file holds for raw offset i
    objs,       \* Stripe.objs: the cache of (url, size) pairs
    pc,         \* position of the enumeration generator the caller holds
    method,     \* the method the caller called
    path,       \* branch taken by the call: "cache", "serial" or "pool"
    hidx,       \* serial: number of head rows firstDocs has read
    pend,       \* serial: alternates of the current Doc not yet yielded
    cidx,       \* cache replay: number of cached pairs yielded
    out,        \* the pairs the caller has received from this generator
    numprocs,   \* pool: value returned by config.allowedProcesses()
    q,          \* pool: the manager queue
    count,      \* pool: the consumer's counter
    wpc,        \* pool: position of each worker
    wslice,     \* pool: slicedDir, the head rows given to each worker
    widx,       \* pool: number of rows of its slice a worker has read
    wpend,      \* pool: pairs of the current Doc a worker has not yet put
    wnone,      \* pool: number of None values a worker has put
    nfail,      \* file operations that failed during this enumeration
    dropIdx,    \* pool: widx at the moment the caller dropped the generator
    hdrs,       \* Span.__init__: the span block headers of the disk header
    sidx,       \* Span.__init__: number of headers handled
    blocks,     \* Span.blocks
    spc,        \* Span.__init__: "init", "built" or "raised"
    hsel,       \* the rows Stripe.heads has yielded
    psel,       \* the rows parallelStoredObjects keeps as `heads`
    fdone,      \* which of the two row filters have run
    dirent,     \* Doc read: the directory row the Doc is fetched for
    newDoc,     \* Doc read: the Doc header found at the start of the buffer
    info,       \* Doc read: the bytes handed to Doc.setInfo, as buffer offsets
    data,       \* Doc read: the bytes handed to Doc.setData, as buffer offsets
    dpc,        \* Doc read: "read", or the function that made the slices
    stripe,     \* Stripe.read: the fields of the Stripe object it works on
    hdrA,       \* Stripe.read: metadata copy A as the file holds it
    hdrB,       \* Stripe.read: what the file holds where copy B is looked for
    avgObjSize, \* the setting cache.min_average_object_size, or the default
    sor,        \* Stripe.read: what its call of SORdirSize returned
    copy,       \* Stripe.read: the copy bound to `data`: "none", "A" or "B"
    rstat,      \* Stripe.read: "unread", "ok" or the exception it raised
    gpc,        \* Span.storedObjects: "idle", "iter", "done" or "raised"
    bidx,       \* Span.storedObjects: index in Span.blocks of the current block
    cleanUp,    \* Span.storedObjects: its local flag
    before,     \* which directories were resident when Span.storedObjects was called
    held        \* the stripes on which the caller has called readDir itself

stripeVars == <<directory, phase, file>>
genVars == <<pc, method, path, hidx, pend, cidx, out, nfail>>
poolVars == <<numprocs, q, count, wpc, wslice, widx, wpend, wnone, dropIdx>>
spanVars == <<hdrs, sidx, blocks, spc>>
filterVars == <<hsel, psel, fdone>>
docVars == <<dirent, newDoc, info, data, dpc>>
readVars == <<stripe, hdrA, hdrB, avgObjSize, sor, copy, rstat>>
enumVars == <<gpc, bidx, cleanUp, before, held>>
(* ------------------- state of parsers and layout ----------------------- *)
VARIABLES
    raw, \* Alternate.fromBuffer: the alternates the buffer still holds
    current, \* Alternate.fromBuffer: the list of alternates parsed so far
    apc, \* Alternate.fromBuffer: "call", "returned" or "none"
    asked, \* the alternates on which requestURL has been called
    url, \* what the last call of requestURL returned or raised
    FIPS, \* config.FIPS, the global switch
    segment, \* Stripe.getBucket: its argument `segment`
    bucket, \* Stripe.getBucket: its argument `bucket`
    brows, \* Stripe.getBucket: the directory rows of the entries it returned
    rawA, \* the five half-words of a directory entry on disk
    rawB, \* the five half-words of a second directory entry
    entA, \* DirEntry(rawA)
    entB, \* DirEntry(rawB)
    decoded, \* which of the two entries have been constructed
    contents, \* parseVolumeConfig: the lines of volume.config
    STORAGE_CONFIG, \* config.STORAGE_CONFIG, as the sizes of the caches read
    vres, \* what parseVolumeConfig returned or raised
    stripePhase, \* Stripe.phase as a number: -1 as constructed, 0 or 1 once set
    validityLimit, \* Stripe.validityLimit
    heap, \* unpackHeap: the heap, as the object headers at its pointer-aligned offsets
    heapOffset, \* unpackHeap: its local `offset`
    heapSize, \* unpackHeap: its argument `size`
    heapRet, \* unpackHeap: its local `ret`, as (Type, length) per parsed object
    hpc  \* unpackHeap: "none", "call", "loop", "returned" or "raised"

altVars == <<raw, current, apc, asked, url>>
fipsVars == <<FIPS>>
bucketVars == <<segment, bucket, brows>>
direntVars == <<rawA, rawB, entA, entB, decoded>>
cfgVars == <<contents, STORAGE_CONFIG, vres>>
validVars == <<stripePhase, validityLimit>>
heapVars == <<heap, heapOffset, heapSize, heapRet, hpc>>
moreVars == <<altVars, fipsVars, bucketVars, direntVars, cfgVars, validVars, heapVars>>
baseVars ==
    <<stripeVars, objs, genVars, poolVars, spanVars, filterVars, docVars, readVars, enumVars>>

\* everything but altVars
exceptAlt == <<baseVars, fipsVars, bucketVars, direntVars, cfgVars, validVars, heapVars>>
\* everything but fipsVars
exceptFips == <<baseVars, altVars, bucketVars, direntVars, cfgVars, validVars, heapVars>>
\* everything but bucketVars
exceptBucket == <<baseVars, altVars, fipsVars, direntVars, cfgVars, validVars, heapVars>>
\* everything but direntVars
exceptDirent == <<baseVars, altVars, fipsVars, bucketVars, cfgVars, validVars, heapVars>>
\* everything but cfgVars
exceptCfg == <<baseVars, altVars, fipsVars, bucketVars, direntVars, validVars, heapVars>>
\* everything but validVars
exceptValid == <<baseVars, altVars, fipsVars, bucketVars, direntVars, cfgVars, heapVars>>
\* everything but heapVars
exceptHeap == <<baseVars, altVars, fipsVars, bucketVars, direntVars, cfgVars, validVars>>

IdleAlt == raw = <<>> /\ current = <<>> /\ apc = "none" /\ asked = {} /\ url = <<>>
IdleFips == FIPS = FALSE
IdleBucket == segment = -1 /\ bucket = -1 /\ brows = <<>>
IdleDirent == rawA = <<>> /\ rawB = <<>> /\ entA = <<>> /\ entB = <<>> /\ decoded = {}
IdleCfg == contents = <<>> /\ STORAGE_CONFIG = {} /\ vres = [kind |-> "none", val |-> <<>>]
IdleValid == stripePhase = -1 /\ validityLimit = -1
IdleHeap == heap = <<>> /\ heapOffset = 0 /\ heapSize = 0 /\ heapRet = <<>> /\ hpc = "none"
IdleMore == IdleAlt /\ IdleFips /\ IdleBucket /\ IdleDirent /\ IdleCfg /\ IdleValid /\ IdleHeap
IdleExceptAlt == IdleFips /\ IdleBucket /\ IdleDirent /\ IdleCfg /\ IdleValid /\ IdleHeap
IdleExceptFips == IdleAlt /\ IdleBucket /\ IdleDirent /\ IdleCfg /\ IdleValid /\ IdleHeap
IdleExceptBucket == IdleAlt /\ IdleFips /\ IdleDirent /\ IdleCfg /\ IdleValid /\ IdleHeap
IdleExceptDirent == IdleAlt /\ IdleFips /\ IdleBucket /\ IdleCfg /\ IdleValid /\ IdleHeap
IdleExceptCfg == IdleAlt /\ IdleFips /\ IdleBucket /\ IdleDirent /\ IdleValid /\ IdleHeap
IdleExceptValid == IdleAlt /\ IdleFips /\ IdleBucket /\ IdleDirent /\ IdleCfg /\ IdleHeap
IdleExceptHeap == IdleAlt /\ IdleFips /\ IdleBucket /\ IdleDirent /\ IdleCfg /\ IdleValid
(* ----------------------- end of state variables ------------------------ *)
auxVars == <<filterVars, docVars, readVars, enumVars, moreVars>>
vars == <<stripeVars, objs, genVars, poolVars, spanVars, auxVars>>

Workers == 1..(MaxProcs + 1)

\* no generator is live: Stripe.__init__ for objs, nothing started
IdleGen ==
    /\ pc = "idle" /\ method = "none" /\ path = "none"
    /\ hidx = 0 /\ pend = <<>> /\ cidx = 0 /\ out = <<>> /\ nfail = 0

IdlePool ==
    /\ numprocs = 0 /\ q = <<>> /\ count = 0
    /\ wpc = [w \in Workers |-> "none"]
    /\ wslice = [w \in Workers |-> <<>>]
    /\ widx = [w \in Workers |-> 0]
    /\ wpend = [w \in Workers |-> <<>>]
    /\ wnone = [w \in Workers |-> 0]
    /\ dropIdx = [w \in Workers |-> 0]

IdleSpan == hdrs = <<>> /\ sidx = 0 /\ blocks = <<>> /\ spc = "built"

\* no row filter has run
IdleFilter == hsel = <<>> /\ psel = <<>> /\ fdone = {}

\* no Doc is being read
IdleDoc == dirent = <<>> /\ newDoc = <<>> /\ info = <<>> /\ data = <<>> /\ dpc = "none"

\* no stripe metadata is being read
IdleRead ==
    /\ stripe = <<>> /\ hdrA = <<>> /\ hdrB = <<>> /\ avgObjSize = 0
    /\ sor = <<>> /\ copy = "none" /\ rstat = "none"

\* no Span.storedObjects generator exists
IdleEnum == gpc = "idle" /\ bidx = 0 /\ cleanUp = FALSE /\ before = <<>> /\ held = {}

IdleAux == IdleFilter /\ IdleDoc /\ IdleRead /\ IdleEnum /\ IdleMore

\* a stripe whose metadata and directory are in memory, with an empty cache
InitStripe(rich) ==
    /\ directory \in Directories
    /\ phase \in BOOLEAN
    /\ file \in FilesUpTo(NumDirEntries, directory, phase, rich)
    /\ objs = <<>>

Init == InitStripe(FALSE) /\ IdleGen /\ IdlePool /\ IdleSpan /\ IdleAux

InitSerial == InitStripe(TRUE) /\ IdleGen /\ IdlePool /\ IdleSpan /\ IdleAux

(* ------------------------ serial enumeration --------------------------- *)
\* the Doc that firstDocs / parallelObjs read for row d:
\* seek(contentOffset + dirOffset(d)), readinto, Doc.from_buffer
DocAt(d) == file[(dirOffset(d) \div 512) + 1]

\* variant of IsFirstDoc that forgets the magic test
IsFirstDoc_NoMagic(doc) == doc.hlen > 0

\* `doc.magic == Doc.MAGIC and doc.hlen > 0`
IsFirstDoc(doc) == doc.magic = DocMAGIC /\ doc.hlen > 0

\* the pairs one Doc contributes: none unless it is a first Doc whose setInfo
\* did not raise struct.error, else (a.requestURL(), doc.totalLength) per alternate
DocPairs(doc) ==
    IF IsFirstDoc(doc) /\ ~doc.infoErr
    THEN [j \in 1..Len(doc.alts) |-> <<doc.alts[j], doc.totalLength>>]
    ELSE <<>>

\* variant of ReplayCache that does not look at the cache and enumerates the
\* stripe again, appending to the pairs it holds
ReplayCache_Reread ==
    /\ path' = "serial"
    /\ pc' = "s_open"
    /\ UNCHANGED <<objs, hidx, pend, cidx, out, nfail, poolVars>>

\* `if self.objs: yield from self.objs`: the first pair of the cache is yielded
ReplayCache ==
    /\ path' = "cache"
    /\ out' = <<objs[1]>>
    /\ cidx' = 1
    /\ pc' = "c_yield"
    /\ UNCHANGED <<objs, hidx, pend, nfail, poolVars>>

\* the call falls to the loop over self.firstDocs
StartSerial ==
    /\ path' = "serial"
    /\ pc' = "s_open"
    /\ UNCHANGED <<objs, hidx, pend, cidx, out, nfail>>

\* the caller calls Stripe.storedObjects() and starts iterating
CallStored ==
    /\ pc = "idle"
    /\ method' = "storedObjects"
    /\ IF objs # <<>> THEN ReplayCache
       ELSE StartSerial /\ UNCHANGED poolVars
    /\ UNCHANGED <<stripeVars, spanVars, auxVars>>

\* variant of CacheResume that ends the replay after the first pair
CacheResume_StopEarly ==
    /\ pc = "c_yield"
    /\ pc' = "done"
    /\ UNCHANGED <<out, cidx>>
    /\ UNCHANGED <<stripeVars, objs, method, path, hidx, pend, nfail, poolVars, spanVars, auxVars>>

\* the caller asks the cache replay for its next pair
CacheResume ==
    /\ pc = "c_yield"
    /\ IF cidx < Len(objs)
       THEN /\ out' = Append(out, objs[cidx + 1])
            /\ cidx' = cidx + 1
            /\ pc' = pc
       ELSE /\ pc' = "done"
            /\ UNCHANGED <<out, cidx>>
    /\ UNCHANGED <<stripeVars, objs, method, path, hidx, pend, nfail, poolVars, spanVars, auxVars>>

\* firstDocs: io.open(self.file, 'rb'); OSError goes to the caller
SerialOpen ==
    /\ pc = "s_open"
    /\ \/ /\ pc' = "s_loop"
          /\ UNCHANGED nfail
       \/ /\ nfail < MaxFaults
          /\ pc' = "raised"
          /\ nfail' = nfail + 1
    /\ UNCHANGED <<stripeVars, objs, method, path, hidx, pend, cidx, out, poolVars, spanVars, auxVars>>

\* firstDocs reads the Doc of the next head row; storedObjects yields the
\* first pair of a first Doc and is suspended there
SerialDoc ==
    /\ pc = "s_loop"
    /\ hidx < Len(heads(directory, phase))
    /\ LET prs == DocPairs(DocAt(heads(directory, phase)[hidx + 1]))
       IN  \/ /\ hidx' = hidx + 1
              /\ IF prs # <<>>
                 THEN /\ objs' = Append(objs, prs[1])
                      /\ out' = Append(out, prs[1])
                      /\ pend' = Tail(prs)
                      /\ pc' = "s_yield"
                 ELSE UNCHANGED <<objs, out, pend, pc>>
              /\ UNCHANGED nfail
           \/ /\ nfail < MaxFaults
              /\ pc' = "raised"
              /\ nfail' = nfail + 1
              /\ UNCHANGED <<objs, out, pend, hidx>>
    /\ UNCHANGED <<stripeVars, method, path, cidx, poolVars, spanVars, auxVars>>

\* the caller asks the serial generator for its next pair
SerialResume ==
    /\ pc = "s_yield"
    /\ IF pend # <<>>
       THEN /\ objs' = Append(objs, Head(pend))
            /\ out' = Append(out, Head(pend))
            /\ pend' = Tail(pend)
            /\ pc' = pc
       ELSE /\ pc' = "s_loop"
            /\ UNCHANGED <<objs, out, pend>>
    /\ UNCHANGED <<stripeVars, method, path, hidx, cidx, nfail, poolVars, spanVars, auxVars>>

\* the head rows are exhausted: the file is closed and the generator ends
SerialEnd ==
    /\ pc = "s_loop"
    /\ hidx = Len(heads(directory, phase))
    /\ pc' = "done"
    /\ UNCHANGED <<stripeVars, objs, method, path, hidx, pend, cidx, out, nfail, poolVars, spanVars, auxVars>>

\* the caller lets go of a generator that has ended; the stripe keeps its cache
Release ==
    /\ pc \in {"done", "raised", "closed"}
    /\ pc' = "idle" /\ method' = "none" /\ path' = "none"
    /\ hidx' = 0 /\ pend' = <<>> /\ cidx' = 0 /\ out' = <<>> /\ nfail' = 0
    /\ numprocs' = 0 /\ q' = <<>> /\ count' = 0
    /\ wpc' = [w \in Workers |-> "none"]
    /\ wslice' = [w \in Workers |-> <<>>]
    /\ widx' = [w \in Workers |-> 0]
    /\ wpend' = [w \in Workers |-> <<>>]
    /\ wnone' = [w \in Workers |-> 0]
    /\ dropIdx' = [w \in Workers |-> 0]
    /\ UNCHANGED <<stripeVars, objs, spanVars, auxVars>>

(* --------------------------- worker pool ------------------------------- *)
\* numpy's heads.any(): some word of some row is not zero
AnyWord(rows) == \E i \in DOMAIN rows : \E j \in 1..5 : rows[i][j] # 0

\* variant of slicedDir whose last slice is cut to sliceSize rows like the others
slicedDir_NoRemainder(hs, n) ==
    LET sliceSize == Len(hs) \div n
    IN  [w \in 1..n |-> SubSeq(hs, (w - 1) * sliceSize + 1, w * sliceSize)]

\* slicedDir: heads[i:i+sliceSize] for i in range(0, (n-1)*sliceSize, sliceSize),
\* then heads[(n-1)*sliceSize:]; needs sliceSize > 0
slicedDir(hs, n) ==
    LET sliceSize == Len(hs) \div n
    IN  [w \in 1..n |->
            IF w < n THEN SubSeq(hs, (w - 1) * sliceSize + 1, w * sliceSize)
            ELSE SubSeq(hs, (n - 1) * sliceSize + 1, Len(hs))]

\* the queue, the slices and the pool are made and the consumer loop is entered
StartPool(n) ==
    /\ path' = "pool"
    /\ q' = <<>>
    /\ wslice' = [w \in Workers |->
                    IF w <= n THEN slicedDir(parHeads(directory, phase), n)[w] ELSE <<>>]
    /\ wpc' = [w \in Workers |-> IF w <= n THEN "open" ELSE "none"]
    /\ count' = 1
    /\ pc' = "get"
    /\ UNCHANGED <<objs, hidx, pend, cidx, out, nfail, widx, wpend, wnone, dropIdx>>

\* Stripe.parallelStoredObjects() is called and iterated up to its first yield;
\* n is what config.allowedProcesses() returns
ParallelCall(n) ==
    /\ pc = "idle"
    /\ method' = "parallelStoredObjects"
    /\ IF objs # <<>> THEN ReplayCache
       ELSE /\ numprocs' = n
            /\ IF n = 0
               THEN StartSerial /\ UNCHANGED <<q, count, wpc, wslice, widx, wpend, wnone, dropIdx>>
               ELSE IF ~AnyWord(parNonZero(directory))
               THEN /\ path' = "empty"
                    /\ pc' = "done"
                    /\ UNCHANGED <<objs, hidx, pend, cidx, out, nfail,
                                   q, count, wpc, wslice, widx, wpend, wnone, dropIdx>>
               ELSE IF Len(parHeads(directory, phase)) \div n = 0
               THEN StartSerial /\ UNCHANGED <<q, count, wpc, wslice, widx, wpend, wnone, dropIdx>>
               ELSE StartPool(n)

\* the caller calls Stripe.parallelStoredObjects() on a stripe it holds
CallParallel(n) == ParallelCall(n) /\ UNCHANGED <<stripeVars, spanVars, auxVars>>

\* parallelObjs: io.open(self.file, 'rb'), before the try statement
WorkerOpen(w) ==
    /\ wpc[w] = "open"
    /\ \/ /\ wpc' = [wpc EXCEPT ![w] = "loop"]
          /\ UNCHANGED nfail
       \/ /\ nfail < MaxFaults
          /\ wpc' = [wpc EXCEPT ![w] = "dead"]
          /\ nfail' = nfail + 1
    /\ UNCHANGED <<stripeVars, objs, pc, method, path, hidx, pend, cidx, out,
                   numprocs, q, count, wslice, widx, wpend, wnone, dropIdx, spanVars, auxVars>>

\* parallelObjs: the body of `for d in dirPart` up to the first q.put
WorkerDoc(w) ==
    /\ wpc[w] = "loop"
    /\ widx[w] < Len(wslice[w])
    /\ \/ /\ widx' = [widx EXCEPT ![w] = @ + 1]
          /\ wpend' = [wpend EXCEPT ![w] = DocPairs(DocAt(wslice[w][widx[w] + 1]))]
          /\ wpc' = [wpc EXCEPT ![w] = IF wpend'[w] # <<>> THEN "put" ELSE "loop"]
          /\ UNCHANGED nfail
       \/ /\ nfail < MaxFaults
          /\ wpc' = [wpc EXCEPT ![w] = "exc"]
          /\ nfail' = nfail + 1
          /\ UNCHANGED <<widx, wpend>>
    /\ UNCHANGED <<stripeVars, objs, pc, method, path, hidx, pend, cidx, out,
                   numprocs, q, count, wslice, wnone, dropIdx, spanVars, auxVars>>

\* parallelObjs: q.put((url, sz)) for the next alternate of the current Doc
WorkerPut(w) ==
    /\ wpc[w] = "put"
    /\ q' = Append(q, Head(wpend[w]))
    /\ wpend' = [wpend EXCEPT ![w] = Tail(@)]
    /\ wpc' = [wpc EXCEPT ![w] = IF wpend'[w] # <<>> THEN "put" ELSE "loop"]
    /\ UNCHANGED <<stripeVars, objs, pc, method, path, hidx, pend, cidx, out, nfail,
                   numprocs, count, wslice, widx, wnone, dropIdx, spanVars, auxVars>>

\* variant of WorkerFinally for a worker that looks for a dropped consumer
\* between Docs and leaves its loop early
WorkerFinally_Cancel(w) ==
    /\ \/ wpc[w] = "loop" /\ widx[w] = Len(wslice[w])
       \/ wpc[w] = "loop" /\ pc = "dropjoin"
       \/ wpc[w] = "exc"
    /\ q' = Append(q, None)
    /\ wnone' = [wnone EXCEPT ![w] = @ + 1]
    /\ wpc' = [wpc EXCEPT ![w] = IF wpc[w] = "exc" THEN "dead" ELSE "done"]
    /\ UNCHANGED <<stripeVars, objs, pc, method, path, hidx, pend, cidx, out, nfail,
                   numprocs, count, wslice, widx, wpend, dropIdx, spanVars, auxVars>>

\* parallelObjs: the finally clause, reached when the slice is exhausted or an
\* exception left the loop: fd.close(); q.put(None)
WorkerFinally(w) ==
    /\ \/ wpc[w] = "loop" /\ widx[w] = Len(wslice[w])
       \/ wpc[w] = "exc"
    /\ q' = Append(q, None)
    /\ wnone' = [wnone EXCEPT ![w] = @ + 1]
    /\ wpc' = [wpc EXCEPT ![w] = IF wpc[w] = "exc" THEN "dead" ELSE "done"]
    /\ UNCHANGED <<stripeVars, objs, pc, method, path, hidx, pend, cidx, out, nfail,
                   numprocs, count, wslice, widx, wpend, dropIdx, spanVars, auxVars>>

\* a worker has left parallelObjs, by return or by exception
Terminated(w) == wpc[w] \in {"done", "dead"}

\* variant of ConsumerGet on a last-in first-out queue: q.get() hands out the
\* value that was put last
ConsumerGet_Lifo ==
    /\ pc = "get"
    /\ count < numprocs
    /\ q # <<>>
    /\ q' = SubSeq(q, 1, Len(q) - 1)
    /\ IF q[Len(q)] = None
       THEN /\ count' = count + 1
            /\ UNCHANGED <<objs, out, pc>>
       ELSE /\ objs' = Append(objs, q[Len(q)])
            /\ out' = Append(out, q[Len(q)])
            /\ pc' = "p_yield"
            /\ UNCHANGED count
    /\ UNCHANGED <<stripeVars, method, path, hidx, pend, cidx, nfail,
                   numprocs, wpc, wslice, widx, wpend, wnone, dropIdx, spanVars, auxVars>>

\* the consumer: `while count < numprocs: val = q.get()`; a None is counted, a
\* pair is appended to self.objs and yielded
ConsumerGet ==
    /\ pc = "get"
    /\ count < numprocs
    /\ q # <<>>
    /\ q' = Tail(q)
    /\ IF Head(q) = None
       THEN /\ count' = count + 1
            /\ UNCHANGED <<objs, out, pc>>
       ELSE /\ objs' = Append(objs, Head(q))
            /\ out' = Append(out, Head(q))
            /\ pc' = "p_yield"
            /\ UNCHANGED count
    /\ UNCHANGED <<stripeVars, method, path, hidx, pend, cidx, nfail,
                   numprocs, wpc, wslice, widx, wpend, wnone, dropIdx, spanVars, auxVars>>

\* the consumer: the loop condition fails and control reaches `finally: pool.join()`
ConsumerExit ==
    /\ pc = "get"
    /\ ~(count < numprocs)
    /\ pc' = "join"
    /\ UNCHANGED <<stripeVars, objs, method, path, hidx, pend, cidx, out, nfail, poolVars, spanVars, auxVars>>

\* the caller asks the pool consumer for its next pair
ConsumerResume ==
    /\ pc = "p_yield"
    /\ pc' = "get"
    /\ UNCHANGED <<stripeVars, objs, method, path, hidx, pend, cidx, out, nfail, poolVars, spanVars, auxVars>>

\* the caller closes (drops) the pool generator while it is suspended at its
\* yield: GeneratorExit is raised there and control reaches `finally: pool.join()`
Drop ==
    /\ pc = "p_yield"
    /\ pc' = "dropjoin"
    /\ dropIdx' = widx
    /\ UNCHANGED <<stripeVars, objs, method, path, hidx, pend, cidx, out, nfail,
                   numprocs, q, count, wpc, wslice, widx, wpend, wnone, spanVars, auxVars>>

\* pool.join() returns once every worker has terminated; the generator ends
Join ==
    /\ pc \in {"join", "dropjoin"}
    /\ \A w \in 1..numprocs : Terminated(w)
    /\ pc' = IF pc = "join" THEN "done" ELSE "closed"
    /\ UNCHANGED <<stripeVars, objs, method, path, hidx, pend, cidx, out, nfail, poolVars, spanVars, auxVars>>

Next ==
    \/ CallStored
    \/ \E n \in 0..MaxProcs : CallParallel(n)
    \/ CacheResume
    \/ SerialOpen
    \/ SerialDoc
    \/ SerialResume
    \/ SerialEnd
    \/ \E w \in Workers : WorkerOpen(w)
    \/ \E w \in Workers : WorkerDoc(w)
    \/ \E w \in Workers : WorkerPut(w)
    \/ \E w \in Workers : WorkerFinally(w)
    \/ ConsumerGet
    \/ ConsumerExit
    \/ ConsumerResume
    \/ Drop
    \/ Join
    \/ Release

Spec == Init /\ [][Next]_vars

NextSerial ==
    \/ CallStored
    \/ CacheResume
    \/ SerialOpen
    \/ SerialDoc
    \/ SerialResume
    \/ SerialEnd
    \/ Release

SpecSerial == InitSerial /\ [][NextSerial]_vars

(* --------------------------- Span.__init__ ----------------------------- *)
\* a span block header as far as construction looks at it: the 3-bit type of
\* typeFree, and the magic of the stripe's metadata copy A in the file
HeaderChoices == {[type |-> t, magic |-> m] : t \in 0..3, m \in {StripeMAGIC, <<0, 0>>}}

RECURSIVE HeaderSeqs(_)
\* the sequences of exactly n span block headers
HeaderSeqs(n) ==
    IF n = 0 THEN {<<>>}
    ELSE {Append(hs, h) : hs \in HeaderSeqs(n - 1), h \in HeaderChoices}

\* Stripe.__init__ -> SpanBlockHeader.__init__: utils.CacheType(typeFree & 0x07)
\* raises ValueError unless the value is NONE = 0, HTTP = 1 or RTSP = 2
StripeCtor(h) == IF h.type \in {0, 1, 2} THEN "ok" ELSE "ValueError"

\* Stripe.read: once the geometry is set and both raw headers are read, the test
\* that chooses the copy evaluates `this.MAGIC`; nothing in the module binds the
\* name `this`, so the call raises NameError whatever the headers hold, before
\* the magic test that would raise ValueError
StripeRead(h) == "NameError"

\* Span.__init__: one pass of the loop over the span block headers
SpanStripe ==
    /\ spc = "init"
    /\ sidx < Len(hdrs)
    /\ LET h == hdrs[sidx + 1]
       IN  IF StripeCtor(h) = "ValueError"
           THEN /\ sidx' = sidx + 1
                /\ UNCHANGED <<blocks, spc>>
           ELSE IF StripeRead(h) # "ok"
           THEN /\ spc' = "raised"
                /\ UNCHANGED <<blocks, sidx>>
           ELSE /\ blocks' = Append(blocks, h)
                /\ sidx' = sidx + 1
                /\ UNCHANGED spc
    /\ UNCHANGED <<stripeVars, objs, genVars, poolVars, auxVars, hdrs>>

\* Span.__init__: the loop is over and the constructor returns
SpanDone ==
    /\ spc = "init"
    /\ sidx = Len(hdrs)
    /\ spc' = "built"
    /\ UNCHANGED <<stripeVars, objs, genVars, poolVars, auxVars, hdrs, sidx, blocks>>

InitSpan ==
    /\ directory = <<>> /\ phase = FALSE /\ file = <<>> /\ objs = <<>>
    /\ IdleGen /\ IdlePool /\ IdleAux
    /\ hdrs \in UNION {HeaderSeqs(n) : n \in 0..MaxStripes}
    /\ sidx = 0 /\ blocks = <<>> /\ spc = "init"

NextSpan == SpanStripe \/ SpanDone

SpecSpan == InitSpan /\ [][NextSpan]_vars

(* ---------------------------- row filters ------------------------------ *)
\* values of the words w0, w1, w2, w4 of a row the filters are tried on: the
\* extremes of 16 bits, the edges of the low byte of w1, the four settings of
\* the head and phase bits with the other bits of w2 clear or set
Word0Choices == {0, 1, 65535}

Word1Choices == {0, 1, 255, 256, 65280}

Word2Choices == {0, 4096, 8192, 12288, 53247, 57343, 61439, 65535}

Word4Choices == {0, 1, 65535}

FilterRows ==
    {<<w0, w1, w2, 0, w4>> : w0 \in Word0Choices, w1 \in Word1Choices,
                             w2 \in Word2Choices, w4 \in Word4Choices}

\* a stripe whose directory in memory is one row, with either phase
InitFilter ==
    /\ directory \in {<<r>> : r \in FilterRows}
    /\ phase \in BOOLEAN
    /\ file = <<>> /\ objs = <<>>
    /\ IdleGen /\ IdlePool /\ IdleSpan /\ IdleFilter /\ IdleDoc /\ IdleRead /\ IdleEnum /\ IdleMore

\* the caller iterates Stripe.heads to its end
HeadsCall ==
    /\ "heads" \notin fdone
    /\ hsel' = heads(directory, phase)
    /\ fdone' = fdone \cup {"heads"}
    /\ UNCHANGED <<stripeVars, objs, genVars, poolVars, spanVars, moreVars, psel, docVars, readVars, enumVars>>

\* parallelStoredObjects up to the computation of sliceSize: the non-zero mask,
\* the return when nothing is cached, the in-phase heads
ParFilter ==
    /\ "par" \notin fdone
    /\ psel' = IF ~AnyWord(parNonZero(directory)) THEN <<>>
               ELSE parHeads(directory, phase)
    /\ fdone' = fdone \cup {"par"}
    /\ UNCHANGED <<stripeVars, objs, genVars, poolVars, spanVars, moreVars, hsel, docVars, readVars, enumVars>>

NextFilter == HeadsCall \/ ParFilter

SpecFilter == InitFilter /\ [][NextFilter]_vars

(* ------------------------- reading one Doc ----------------------------- *)
\* Doc.sizeof = struct.calcsize("II5QI4BIIII")
DocSizeof == 72

RECURSIVE Pow2(_)
\* 1 << n
Pow2(n) == IF n = 0 THEN 1 ELSE 2 * Pow2(n - 1)

\* directory.dirSize: big = (d[1] & 0xC000) >> 14, size = (d[1] & 0x3F00) >> 10,
\* (size + 1) * (1 << (9 + 3*big))
dirSize(d) ==
    LET big == (d[2] \div 16384) % 4
        size == (((d[2] \div 256) % 64) * 256) \div 1024
    IN  (size + 1) * Pow2(9 + 3 * big)

\* bytearray(n) after readinto, each byte standing for its offset in the buffer
Buffer(n) == [i \in 1..n |-> i - 1]

\* the Python slice buf[a:b] for a >= 0 and b >= 0
PySlice(buf, a, b) ==
    IF a >= Len(buf) \/ b <= a THEN <<>>
    ELSE SubSeq(buf, a + 1, IF b < Len(buf) THEN b ELSE Len(buf))

\* Doc headers the buffer may start with: the fields magic, hlen and length,
\* length being Doc.sizeof + hlen + the length of the payload
DocHeaders ==
    {[magic |-> m, hlen |-> h, length |-> DocSizeof + h + p] :
        m \in {DocMAGIC, CORRUPT_MAGIC}, h \in {0, 40, 72, 100, 400}, p \in {0, 60, 600}}

\* a row of approximate size 512 or 1024 and the Doc header read for it
InitDoc ==
    /\ directory = <<>> /\ phase = FALSE /\ file = <<>> /\ objs = <<>>
    /\ IdleGen /\ IdlePool /\ IdleSpan /\ IdleFilter /\ IdleRead /\ IdleEnum /\ IdleMore
    /\ dirent \in {<<1, 0, 12288, 0, 0>>, <<1, 1024, 12288, 0, 0>>}
    /\ newDoc \in DocHeaders
    /\ info = <<>> /\ data = <<>> /\ dpc = "read"

\* setInfo(buffer[Doc.sizeof : doc.hlen]); setData(buffer[Doc.sizeof + doc.hlen : len(doc)])
SetInfoData ==
    /\ info' = PySlice(Buffer(dirSize(dirent)), DocSizeof, newDoc.hlen)
    /\ data' = PySlice(Buffer(dirSize(dirent)), DocSizeof + newDoc.hlen, newDoc.length)

\* Stripe.firstDocs, from Doc.from_buffer to the yield of the Doc
FirstDocsSlices ==
    /\ dpc = "read"
    /\ dpc' = "firstDocs"
    /\ IF IsFirstDoc(newDoc) THEN SetInfoData ELSE UNCHANGED <<info, data>>
    /\ UNCHANGED <<stripeVars, objs, genVars, poolVars, spanVars, moreVars, filterVars, readVars, enumVars, dirent, newDoc>>

\* Stripe.parallelObjs, from Doc.from_buffer to the loop over the alternates
ParallelObjsSlices ==
    /\ dpc = "read"
    /\ dpc' = "parallelObjs"
    /\ IF IsFirstDoc(newDoc) THEN SetInfoData ELSE UNCHANGED <<info, data>>
    /\ UNCHANGED <<stripeVars, objs, genVars, poolVars, spanVars, moreVars, filterVars, readVars, enumVars, dirent, newDoc>>

\* Stripe.fetch, from Doc.from_buffer to its return: None unless the magic is
\* Doc.MAGIC, and no test of hlen
FetchSlices ==
    /\ dpc = "read"
    /\ dpc' = "fetch"
    /\ IF newDoc.magic = DocMAGIC THEN SetInfoData ELSE UNCHANGED <<info, data>>
    /\ UNCHANGED <<stripeVars, objs, genVars, poolVars, spanVars, moreVars, filterVars, readVars, enumVars, dirent, newDoc>>

NextDoc == FirstDocsSlices \/ ParallelObjsSlices \/ FetchSlices

SpecDoc == InitDoc /\ [][NextDoc]_vars

(* --------------------------- Stripe.read ------------------------------- *)
\* utils.STORE_BLOCK_SIZE
STORE_BLOCK_SIZE == 8192

\* Stripe.sizeof = struct.calcsize("Ihhl3Q8I")
StripeSizeof == 72

\* Python's a // b, b not zero
FloorDiv(a, b) ==
    LET x == IF b > 0 THEN a ELSE -a
        y == IF b > 0 THEN b ELSE -b
    IN  IF x >= 0 THEN x \div y ELSE -((-x + y - 1) \div y)

\* utils.align
align(alignMe, alignTo) ==
    LET x == alignMe % alignTo
    IN  IF x # 0 THEN alignMe + (alignTo - x) ELSE alignMe

\* what a function returns in place of a value when it divides by zero
ZeroDivisionError == <<"ZeroDivisionError">>

\* variant of singleStep that rounds the directory size down to whole kilobytes
singleStep_Floor(t, start, length, avgObj) ==
    LET b == FloorDiv(length - t[3] + start, 4 * avgObj)
        segs == -FloorDiv(-b, 16384)
    IN  IF segs = 0 THEN ZeroDivisionError
        ELSE LET buckets == -FloorDiv(-b, segs)
                 content == start + 16384 * ( -FloorDiv(-(34 + segs), 4096)
                                              + FloorDiv(5 * buckets * segs, 1024) + 1 )
             IN  <<buckets, segs, content>>

\* SORdirSize.singleStep on the triple t = (buckets, segs, content); start,
\* length and avgObjSize are its nonlocal names
singleStep(t, start, length, avgObj) ==
    LET b == FloorDiv(length - t[3] + start, 4 * avgObj)
        segs == -FloorDiv(-b, 16384)
    IN  IF segs = 0 THEN ZeroDivisionError
        ELSE LET buckets == -FloorDiv(-b, segs)
                 content == start + 16384 * ( -FloorDiv(-(34 + segs), 4096)
                                              - FloorDiv(-5 * buckets * segs, 1024) + 1 )
             IN  <<buckets, segs, content>>

\* variant of SORdirSize that stops after two steps
SORdirSize_TwoSteps(start, length, avgObj) ==
    LET r1 == singleStep(<<0, 0, start>>, start, length, avgObj)
    IN  IF Len(r1) # 3 THEN r1 ELSE singleStep(r1, start, length, avgObj)

\* SORdirSize: singleStep(*singleStep(*singleStep(0, 0, start)))
SORdirSize(start, length, avgObj) ==
    LET r1 == singleStep(<<0, 0, start>>, start, length, avgObj)
        r2 == IF Len(r1) # 3 THEN r1 ELSE singleStep(r1, start, length, avgObj)
    IN  IF Len(r2) # 3 THEN r2 ELSE singleStep(r2, start, length, avgObj)

\* is the name `this`, which Stripe.read uses in its test of copy B, bound in
\* the module: nothing defines or imports it
ThisBound == FALSE

\* the 16 words of a metadata copy that Stripe.read looks at
MetaHeaders == {[magic |-> m, syncSerial |-> n] : m \in {StripeMAGIC, <<0, 0>>}, n \in {0, 1}}

\* Stripe.__init__: the span block header gives offset and length (in store
\* blocks); every field computed on demand is -1
NewStripe(off, len) ==
    [offset |-> off, length |-> len, numBuckets |-> -1, numSegs |-> -1,
     numDirEntries |-> -1, contentOffset |-> -1, directoryOffset |-> -1,
     syncSerial |-> -1]

\* a constructed stripe, the two places of the file where its metadata copies
\* are looked for, and the configuration
InitRead ==
    /\ directory = <<>> /\ phase = FALSE /\ file = <<>> /\ objs = <<>>
    /\ IdleGen /\ IdlePool /\ IdleSpan /\ IdleFilter /\ IdleDoc /\ IdleEnum /\ IdleMore
    /\ stripe \in {NewStripe(k * STORE_BLOCK_SIZE, n) :
                      k \in 0..MaxStartBlocks, n \in (1..MaxLenBlocks) \cup {16384, 131072}}
    /\ hdrA \in MetaHeaders
    /\ hdrB \in MetaHeaders
    /\ avgObjSize \in {8000, 16000}
    /\ sor = <<>> /\ copy = "none" /\ rstat = "unread"

\* the stripe with the geometry that Stripe.read assigns from the triple g
WithGeometry(st, g) ==
    [st EXCEPT !.numBuckets = g[1] * g[2],
               !.numSegs = g[2],
               !.contentOffset = g[3],
               !.directoryOffset = align(st.offset + StripeSizeof + 2 * g[2], STORE_BLOCK_SIZE),
               !.numDirEntries = 4 * g[1] * g[2]]

\* offsetB = align(align(directoryOffset + 10*numDirEntries) + sizeof)
OffsetB(st) ==
    align(align(st.directoryOffset + 10 * st.numDirEntries, STORE_BLOCK_SIZE) + StripeSizeof,
          STORE_BLOCK_SIZE)

\* Stripe.read, the whole call
Read ==
    /\ rstat = "unread"
    /\ sor' = SORdirSize(stripe.offset, stripe.length * STORE_BLOCK_SIZE, avgObjSize)
    /\ IF Len(sor') # 3
       THEN /\ rstat' = "ZeroDivisionError"
            /\ UNCHANGED <<stripe, copy>>
       ELSE LET geo == WithGeometry(stripe, sor')
                takeB == hdrB.magic = StripeMAGIC /\ hdrB.syncSerial > hdrA.syncSerial
                chosen == IF takeB
                          THEN [geo EXCEPT !.offset = OffsetB(geo),
                                           !.directoryOffset =
                                               align(OffsetB(geo) + StripeSizeof + 2 * geo.numSegs,
                                                     STORE_BLOCK_SIZE)]
                          ELSE geo
                hdr == IF takeB THEN hdrB ELSE hdrA
            IN  IF ~ThisBound
                THEN /\ stripe' = geo
                     /\ rstat' = "NameError"
                     /\ UNCHANGED copy
                ELSE /\ copy' = IF takeB THEN "B" ELSE "A"
                     /\ IF hdr.magic # StripeMAGIC
                        THEN /\ stripe' = chosen
                             /\ rstat' = "ValueError"
                        ELSE /\ stripe' = [chosen EXCEPT !.syncSerial = hdr.syncSerial]
                             /\ rstat' = "ok"
    /\ UNCHANGED <<stripeVars, objs, genVars, poolVars, spanVars, moreVars, filterVars, docVars, enumVars,
                   hdrA, hdrB, avgObjSize>>

\* a caller that got an exception from read may call it again
ReadAgain ==
    /\ rstat \in {"NameError", "ZeroDivisionError"}
    /\ rstat' = "unread"
    /\ UNCHANGED <<stripeVars, objs, genVars, poolVars, spanVars, moreVars, filterVars, docVars, enumVars,
                   stripe, hdrA, hdrB, avgObjSize, sor, copy>>

NextRead == Read \/ ReadAgain

SpecRead == InitRead /\ [][NextRead]_vars

(* ------------------------ Span.storedObjects --------------------------- *)
\* the directory on disk of a stripe in which nothing is cached
EmptyDir == [i \in 1..NumDirEntries |-> <<0, 0, 0, 0, 0>>]

\* the directory on disk of a stripe with two heads, their phase bit set
TwoHeadDir ==
    [i \in 1..NumDirEntries |-> IF i <= 2 THEN <<i, 0, 12288, 0, 0>> ELSE <<0, 0, 0, 0, 0>>]

\* the content area of such a stripe: a first Doc with one alternate per head
BlockFile == [i \in 1..NumDirEntries |-> IF i <= 2 THEN FirstDoc1(i) ELSE ContDoc(i)]

\* Stripe.__init__: a stripe as constructed, for the directory d the file holds:
\* no metadata read, self.directory = None, self.objs = []
NewBlock(d) ==
    [meta |-> "unread", loaded |-> FALSE, objs |-> <<>>, directory |-> d, file |-> BlockFile]

RECURSIVE BlockSeqs(_)
\* the lists of exactly n constructed stripes
BlockSeqs(n) ==
    IF n = 0 THEN {<<>>}
    ELSE {Append(bs, NewBlock(d)) : bs \in BlockSeqs(n - 1), d \in {EmptyDir, TwoHeadDir}}

\* a span object whose blocks list (self.blocks, a public list) holds stripes
\* as Stripe.__init__ leaves them; Span.__init__ itself appends a stripe only
\* after its read() returned, which with `this` unbound it never does
InitEnum ==
    /\ directory = <<>> /\ phase = FALSE /\ file = <<>> /\ objs = <<>>
    /\ IdleGen /\ IdlePool
    /\ hdrs = <<>> /\ sidx = 0 /\ spc = "built"
    /\ blocks \in UNION {BlockSeqs(n) : n \in 0..MaxBlocks}
    /\ IdleFilter /\ IdleDoc /\ IdleRead /\ IdleEnum /\ IdleMore

\* the caller calls read() on stripe k: the geometry is assigned and, `this`
\* not being bound, NameError is raised before any metadata field is set
CallerRead(k) ==
    /\ gpc = "idle"
    /\ blocks[k].meta = "unread"
    /\ blocks' = [blocks EXCEPT ![k].meta = IF ThisBound THEN "ready" ELSE "geometry"]
    /\ UNCHANGED <<stripeVars, objs, genVars, poolVars, hdrs, sidx, spc, auxVars>>

\* the caller calls readDir() on stripe k: with numDirEntries and
\* directoryOffset still -1 the seek raises OSError and nothing is assigned
CallerReadDir(k) ==
    /\ gpc = "idle"
    /\ IF blocks[k].meta = "unread"
       THEN UNCHANGED <<blocks, held>>
       ELSE /\ blocks' = [blocks EXCEPT ![k].loaded = TRUE]
            /\ held' = held \cup {k}
    /\ UNCHANGED <<stripeVars, objs, genVars, poolVars, hdrs, sidx, spc,
                   filterVars, docVars, readVars, moreVars, gpc, bidx, cleanUp, before>>

\* `block` is bound to stripe k of the blocks list; the phase of a stripe whose
\* read() raised is still -1, which is true
BindBlock(k) ==
    /\ directory' = blocks[k].directory
    /\ phase' = TRUE
    /\ file' = blocks[k].file
    /\ objs' = blocks[k].objs

\* no generator of a stripe is live
NoStripeGenerator ==
    /\ pc' = "idle" /\ method' = "none" /\ path' = "none"
    /\ hidx' = 0 /\ pend' = <<>> /\ cidx' = 0 /\ out' = <<>>
    /\ numprocs' = 0 /\ q' = <<>> /\ count' = 0
    /\ wpc' = [w \in Workers |-> "none"]
    /\ wslice' = [w \in Workers |-> <<>>]
    /\ widx' = [w \in Workers |-> 0]
    /\ wpend' = [w \in Workers |-> <<>>]
    /\ wnone' = [w \in Workers |-> 0]
    /\ dropIdx' = [w \in Workers |-> 0]

\* the caller calls Span.storedObjects() and starts iterating: cleanUp = False
\* and the loop over self.blocks is entered
SpanCall ==
    /\ gpc = "idle" /\ pc = "idle"
    /\ before' = [k \in DOMAIN blocks |-> blocks[k].loaded]
    /\ cleanUp' = FALSE
    /\ IF blocks = <<>>
       THEN /\ gpc' = "done"
            /\ UNCHANGED <<stripeVars, objs, bidx>>
       ELSE /\ gpc' = "iter"
            /\ bidx' = 1
            /\ BindBlock(1)
    /\ UNCHANGED <<genVars, poolVars, spanVars, filterVars, docVars, readVars, moreVars, held>>

\* the body of the loop up to the first yield of the block's enumeration:
\* `if block.directory is None: block.readDir(); cleanUp = True`, then
\* `yield from block.parallelStoredObjects()`; what readDir raises ends the
\* generator
SpanEnter(n) ==
    /\ gpc = "iter" /\ pc = "idle"
    /\ \/ /\ blocks[bidx].loaded
          /\ ParallelCall(n)
          /\ UNCHANGED <<blocks, cleanUp, gpc>>
       \/ /\ ~blocks[bidx].loaded
          /\ blocks[bidx].meta # "unread"
          /\ blocks' = [blocks EXCEPT ![bidx].loaded = TRUE]
          /\ cleanUp' = TRUE
          /\ ParallelCall(n)
          /\ UNCHANGED gpc
       \/ /\ ~blocks[bidx].loaded
          /\ n = 0
          /\ \/ blocks[bidx].meta = "unread" /\ UNCHANGED nfail
             \/ /\ blocks[bidx].meta # "unread" /\ nfail < MaxFaults
                /\ nfail' = nfail + 1
          /\ gpc' = "raised"
          /\ UNCHANGED <<objs, pc, method, path, hidx, pend, cidx, out, poolVars,
                         blocks, cleanUp>>
    /\ UNCHANGED <<stripeVars, hdrs, sidx, spc, filterVars, docVars, readVars, moreVars,
                   bidx, before, held>>

\* variant of SpanBlockDone that leaves the flag set once it was set
SpanBlockDone_KeepFlag ==
    /\ gpc = "iter" /\ pc = "done"
    /\ blocks' = [blocks EXCEPT ![bidx].objs = objs,
                                ![bidx].loaded = IF cleanUp THEN FALSE ELSE @]
    /\ cleanUp' = cleanUp
    /\ NoStripeGenerator
    /\ IF bidx < Len(blocks)
       THEN /\ bidx' = bidx + 1
            /\ BindBlock(bidx + 1)
            /\ UNCHANGED gpc
       ELSE /\ gpc' = "done"
            /\ UNCHANGED <<stripeVars, objs, bidx>>
    /\ UNCHANGED <<nfail, hdrs, sidx, spc, filterVars, docVars, readVars, moreVars, before, held>>

\* the enumeration of the block has ended: `if cleanUp: cleanUp,
\* block.directory = False, None`, and the loop goes to the next block or ends
SpanBlockDone ==
    /\ gpc = "iter" /\ pc = "done"
    /\ blocks' = [blocks EXCEPT ![bidx].objs = objs,
                                ![bidx].loaded = IF cleanUp THEN FALSE ELSE @]
    /\ cleanUp' = FALSE
    /\ NoStripeGenerator
    /\ IF bidx < Len(blocks)
       THEN /\ bidx' = bidx + 1
            /\ BindBlock(bidx + 1)
            /\ UNCHANGED gpc
       ELSE /\ gpc' = "done"
            /\ UNCHANGED <<stripeVars, objs, bidx>>
    /\ UNCHANGED <<nfail, hdrs, sidx, spc, filterVars, docVars, readVars, moreVars, before, held>>

\* the caller closes (drops) a serial or cache-replay generator that is
\* suspended at its yield: GeneratorExit ends it there
DropSerial ==
    /\ pc \in {"s_yield", "c_yield"}
    /\ pc' = "closed"
    /\ UNCHANGED <<stripeVars, objs, method, path, hidx, pend, cidx, out, nfail,
                   poolVars, spanVars, auxVars>>

\* the Span.storedObjects generator is no longer live: it is exhausted, or an
\* exception or the caller's close has passed through it
SpanEnded == gpc \in {"done", "raised"} \/ (gpc = "iter" /\ pc \in {"raised", "closed"})

\* the caller lets go of a generator that has ended
SpanRelease ==
    /\ SpanEnded
    /\ blocks' = IF gpc = "iter" THEN [blocks EXCEPT ![bidx].objs = objs] ELSE blocks
    /\ gpc' = "idle" /\ bidx' = 0 /\ cleanUp' = FALSE /\ before' = <<>>
    /\ directory' = <<>> /\ phase' = FALSE /\ file' = <<>> /\ objs' = <<>>
    /\ NoStripeGenerator
    /\ nfail' = 0
    /\ UNCHANGED <<hdrs, sidx, spc, filterVars, docVars, readVars, moreVars, held>>

NextEnum ==
    \/ \E k \in DOMAIN blocks : CallerRead(k)
    \/ \E k \in DOMAIN blocks : CallerReadDir(k)
    \/ SpanCall
    \/ \E n \in 0..MaxProcs : SpanEnter(n)
    \/ SpanBlockDone
    \/ SpanRelease
    \/ DropSerial
    \/ CacheResume
    \/ SerialOpen
    \/ SerialDoc
    \/ SerialResume
    \/ SerialEnd
    \/ \E w \in Workers : WorkerOpen(w)
    \/ \E w \in Workers : WorkerDoc(w)
    \/ \E w \in Workers : WorkerPut(w)
    \/ \E w \in Workers : WorkerFinally(w)
    \/ ConsumerGet
    \/ ConsumerExit
    \/ ConsumerResume
    \/ Drop
    \/ Join

SpecEnum == InitEnum /\ [][NextEnum]_vars

(* ------------------------ Alternate.fromBuffer ------------------------- *)
\* Alternate.MAGIC = 0xDCBADEED, MAGIC_ALIVE = 0xABCDDEED, MAGIC_DEAD = 0x0DEADEED
AltMAGIC == <<56506, 57069>>

AltMAGIC_ALIVE == <<43981, 57069>>

AltMAGIC_DEAD == <<3562, 57069>>

\* Alternate.sizeof = align(calcsize("I10i" "6Pii4?" "6Pii4?" "lliP4LP"), calcsize("L"))
AltSizeof == 248

\* struct.calcsize('P')
PointerSize == 8

\* bytes of the two header heaps and the header text that follow the fixed
\* part and the fragment table of each serialised alternate
HeapBytes == 400

\* a Python str or bytes value is the sequence of its characters, with its
\* type; None has the type "None"
PyStr(chars) == [kind |-> "str", val |-> chars]

PyBytes(chars) == [kind |-> "bytes", val |-> chars]

PyNone == [kind |-> "None", val |-> <<>>]

\* an exception that leaves the function
Raise(name) == [kind |-> "raise", val |-> <<name>>]

\* the URL object unpackURLImplHeap builds when the request heap holds a URL
SomeURL == [kind |-> "URL", val |-> <<"h", "t", "t", "p", ":", "/", "/", "a">>]

\* raw[dataPos:totalOffset] of an alternate, the text of the request headers
\* with the five bytes that follow it: the text has "http" once, twice, not at
\* all, or is empty
HeaderRegions ==
    { <<"x", "h", "t", "t", "p", "a", "0", "0", "0", "0", "0">>,
      <<"h", "t", "t", "p", "x", "h", "t", "t", "p", "y", "0", "0", "0", "0", "0">>,
      <<"G", "E", "T", "0", "0", "0", "0", "0">>,
      <<"0", "0">> }

\* a serialised alternate: its magic, its fragment-offset count (the external
\* table of max(0, count - 4) offsets follows the fixed part), whether the
\* parsing of its two header heaps ends with ValueError, whether the request
\* heap holds a URL object, the request header region and whether that decodes
AltImage(m, fc, hp, u, reg, dec) ==
    [magic |-> m, fragOffsetCount |-> fc, heaps |-> hp, hasURL |-> u,
     region |-> reg, decodes |-> dec]

PlainRegion == <<"x", "h", "t", "t", "p", "a", "0", "0", "0", "0", "0">>

AltImages ==
    {AltImage(AltMAGIC, fc, "ValueError", FALSE, PlainRegion, TRUE) : fc \in {0, 4, 5, 40}}
    \cup {AltImage(AltMAGIC, fc, "ok", TRUE, PlainRegion, TRUE) : fc \in {0, 4, 5, 40}}
    \cup {AltImage(AltMAGIC, fc, "ok", FALSE, reg, TRUE) : fc \in {0, 4, 5, 40}, reg \in HeaderRegions}
    \cup {AltImage(AltMAGIC, fc, "ok", FALSE, PlainRegion, FALSE) : fc \in {0, 4, 5, 40}}
    \cup {AltImage(m, 0, "ok", TRUE, PlainRegion, TRUE) : m \in {AltMAGIC_ALIVE, AltMAGIC_DEAD, <<0, 0>>}}

RECURSIVE ImageSeqs(_)
ImageSeqs(n) ==
    IF n = 0 THEN {<<>>}
    ELSE {Append(is, im) : is \in ImageSeqs(n - 1), im \in AltImages}

\* numFrags = fragOffsetCount - 4 if fragOffsetCount > 4 else 0
NumFrags(im) == IF im.fragOffsetCount > 4 THEN im.fragOffsetCount - 4 ELSE 0

\* the bytes a serialised alternate takes in the buffer
ImageLen(im) == AltSizeof + NumFrags(im) * PointerSize + HeapBytes

RECURSIVE RawLen(_)
\* len(raw)
RawLen(is) == IF is = <<>> THEN 0 ELSE ImageLen(Head(is)) + RawLen(Tail(is))

\* struct.unpack("%dP" % numFrags, raw[cls.sizeof:fragTblSize]): struct.error
\* unless the slice has exactly numFrags * 8 bytes; each offset read is named
\* by the place in the buffer of its first byte
FragmentTable(rawLen, numFrags) ==
    LET fragTblSize == numFrags * PointerSize
        slice == PySlice(Buffer(rawLen), AltSizeof, fragTblSize)
    IN  IF Len(slice) # fragTblSize THEN Raise("struct.error")
        ELSE [kind |-> "offsets",
              val |-> [k \in 1..numFrags |-> slice[1 + PointerSize * (k - 1)]]]

\* s[:-5]
DropLast5(s) == IF Len(s) <= 5 THEN <<>> ELSE SubSeq(s, 1, Len(s) - 5)

\* the Alternate object fromBuffer appends for the image im, given the
\* fragment offsets it read
Latest(im, frags) ==
    [magic |-> im.magic,
     fragOffsetCount |-> im.fragOffsetCount,
     fragmentOffsets |-> frags,
     URL |-> IF im.hasURL THEN SomeURL ELSE PyNone,
     requestHeaders |-> IF im.decodes THEN PyStr(DropLast5(im.region))
                        ELSE PyBytes(DropLast5(im.region))]

RECURSIVE FromNextMagic(_)
\* raw[theEnd:] with theEnd = raw.index(struct.pack("I", cls.MAGIC), totalOffset),
\* and b'' when the magic is not found
FromNextMagic(is) ==
    IF is = <<>> THEN <<>>
    ELSE IF Head(is).magic = AltMAGIC THEN is
    ELSE FromNextMagic(Tail(is))

\* a buffer of up to MaxAlts serialised alternates is about to be parsed
InitAlt ==
    /\ directory = <<>> /\ phase = FALSE /\ file = <<>> /\ objs = <<>>
    /\ IdleGen /\ IdlePool /\ IdleSpan /\ IdleFilter /\ IdleDoc /\ IdleRead /\ IdleEnum
    /\ raw \in UNION {ImageSeqs(n) : n \in 0..MaxAlts}
    /\ current = <<>> /\ apc = "call" /\ asked = {} /\ url = <<>>
    /\ IdleExceptAlt

\* one call of Alternate.fromBuffer(raw, current), up to its return or to the
\* call of itself on the rest of the buffer
FromBuffer ==
    /\ apc = "call"
    /\ IF raw = <<>>
       THEN apc' = "returned" /\ UNCHANGED <<raw, current>>
       ELSE LET im == Head(raw)
                numFrags == NumFrags(im)
                tbl == IF numFrags > 0 THEN FragmentTable(RawLen(raw), numFrags)
                       ELSE [kind |-> "offsets", val |-> <<>>]
            IN  IF im.magic \notin {AltMAGIC, AltMAGIC_ALIVE, AltMAGIC_DEAD}
                   \/ tbl.kind = "raise"
                   \/ im.heaps = "ValueError"
                THEN apc' = "returned" /\ UNCHANGED <<raw, current>>
                ELSE /\ current' = Append(current, Latest(im, tbl.val))
                     /\ raw' = FromNextMagic(Tail(raw))
                     /\ UNCHANGED apc
    /\ UNCHANGED <<exceptAlt, asked, url>>

\* an Alternate as its constructor leaves it: requestHeaders is None and
\* request.URL is None
Constructed(fc) ==
    [magic |-> AltMAGIC, fragOffsetCount |-> fc, fragmentOffsets |-> <<>>,
     URL |-> PyNone, requestHeaders |-> PyNone]

Reverse(s) == [i \in 1..Len(s) |-> s[Len(s) + 1 - i]]

\* s.index(pat): the 0-based place of the first occurrence, -1 when there is
\* none (where Python raises ValueError)
IndexOf(s, pat) ==
    LET hits == {i \in 0..(Len(s) - Len(pat)) : SubSeq(s, i + 1, i + Len(pat)) = pat}
    IN  IF hits = {} THEN -1 ELSE CHOOSE i \in hits : \A j \in hits : i <= j

Unknown == PyStr(<<"U", "n", "k", "n", "o", "w", "n">>)

\* Alternate.requestURL: None[::-1] and bytes.index(str) raise TypeError, which
\* is caught with IndexError; str.index raises ValueError when 'ptth' does not
\* occur
requestURL(a) ==
    IF a.URL # PyNone THEN a.URL
    ELSE IF a.requestHeaders.kind # "str" THEN Unknown
    ELSE LET h == a.requestHeaders.val
             i == IndexOf(Reverse(h), <<"p", "t", "t", "h">>)
         IN  IF i < 0 THEN Raise("ValueError")
             ELSE PyStr(SubSeq(h, Len(h) - (i + 4) + 1, Len(h)))

\* the caller calls requestURL on an alternate fromBuffer returned, or on one
\* it constructed
RequestURL ==
    /\ apc = "returned"
    /\ \E a \in (Range(current) \cup {Constructed(0)}) \ asked :
          /\ url' = requestURL(a)
          /\ asked' = asked \cup {a}
    /\ UNCHANGED <<exceptAlt, raw, current, apc>>

NextAlt == FromBuffer \/ RequestURL

SpecAlt == InitAlt /\ [][NextAlt]_vars

(* ------------------------------ config.FIPS ---------------------------- *)
\* config.INK_MD5_SIZE(): 32 if FIPS else 16
INK_MD5_SIZE == IF FIPS THEN 32 ELSE 16

\* the program has started (config.FIPS = False) and a Doc header was read
InitFips ==
    /\ directory = <<>> /\ phase = FALSE /\ file = <<>> /\ objs = <<>>
    /\ IdleGen /\ IdlePool /\ IdleSpan /\ IdleFilter /\ IdleRead /\ IdleEnum
    /\ dirent \in {<<1, 0, 12288, 0, 0>>, <<1, 1024, 12288, 0, 0>>}
    /\ newDoc \in DocHeaders
    /\ info = <<>> /\ data = <<>> /\ dpc = "read"
    /\ FIPS = FALSE
    /\ IdleExceptFips

\* scan.main: `if args.fips: config.FIPS = True`, before anything is read
MainFips ==
    /\ dpc = "read"
    /\ ~FIPS
    /\ FIPS' = TRUE
    /\ UNCHANGED exceptFips

NextFips == MainFips \/ FirstDocsSlices \/ ParallelObjsSlices \/ FetchSlices

SpecFips == InitFips /\ [][NextFips]_vars

(* --------------------------- Stripe.getBucket -------------------------- *)
\* stripes of one, two and three segments, constructed and not yet read
InitBucket ==
    /\ directory = <<>> /\ phase = FALSE /\ file = <<>> /\ objs = <<>>
    /\ IdleGen /\ IdlePool /\ IdleSpan /\ IdleFilter /\ IdleDoc /\ IdleEnum
    /\ stripe \in {NewStripe(k * STORE_BLOCK_SIZE, n) :
                      k \in 0..MaxStartBlocks, n \in {807, 16384, 70000, 100000, 131072}}
    /\ hdrA \in MetaHeaders
    /\ hdrB = hdrA
    /\ avgObjSize \in {8000, 16000}
    /\ sor = <<>> /\ copy = "none" /\ rstat = "unread"
    /\ segment = -1 /\ bucket = -1 /\ brows = <<>>
    /\ IdleExceptBucket

\* self.directory[index : index + 4] as the row numbers it takes from a
\* directory of n rows, for index >= 0
RowSlice(index, n) ==
    LET stop == IF index + 4 < n THEN index + 4 ELSE n
    IN  IF stop <= index THEN <<>> ELSE [k \in 1..(stop - index) |-> index + k - 1]

\* Stripe.getBucket(seg, idx) on a stripe whose geometry read() has set:
\* index = 4*((segment * self.numSegs // self.numBuckets) + bucket)
GetBucket(seg, idx) ==
    /\ rstat # "unread" /\ stripe.numSegs >= 1
    /\ segment = -1
    /\ segment' = seg
    /\ bucket' = idx
    /\ LET index == 4 * (FloorDiv(seg * stripe.numSegs, stripe.numBuckets) + idx)
       IN  brows' = RowSlice(index, stripe.numDirEntries)
    /\ UNCHANGED exceptBucket

NextBucket ==
    \/ Read
    \/ \E seg \in 0..(stripe.numSegs - 1),
          idx \in {0, 1, (stripe.numBuckets \div stripe.numSegs) - 1} : GetBucket(seg, idx)

SpecBucket == InitBucket /\ [][NextBucket]_vars

(* --------------------------- DirEntry.__init__ ------------------------- *)
\* 10-byte inputs, as the five half-words struct.unpack("HHHHH") gives: w1
\* with each of its three parts (offset byte, size, big) set, w2 with each flag
\* and the tag set
RawEntries ==
    {<<w0, w1, w2, w3, w4>> :
        w0 \in {0, 1}, w1 \in {0, 255, 256, 1024, 1792, 7168, 16384},
        w2 \in {0, 1, 4096, 8192, 16384, 32768}, w3 \in {0, 1}, w4 \in {0, 1}}

\* DirEntry.__init__: the instance dictionary it builds from w.  The 40-bit
\* _offset = w[0] + ((w[1] & 0x00FF) << 16) + (w[4] << 24) is kept as its low
\* 24 bits and the 16 bits above them; "Offset" = (off - 1) * 512 is a function
\* of _offset
DirEntry(w) ==
    LET big == (w[2] \div 16384) % 4
        size == (((w[2] \div 256) % 64) * 256) \div 1024
    IN  [length |-> (size + 1) * Pow2(9 + 3 * big),
         _offset |-> <<w[1] + (w[2] % 256) * 65536, w[5]>>,
         token |-> (w[3] \div 32768) % 2 = 1,
         pinned |-> (w[3] \div 16384) % 2 = 1,
         head |-> (w[3] \div 8192) % 2 = 1,
         phase |-> (w[3] \div 4096) % 2 = 1,
         tag |-> w[3] % 4096,
         next |-> w[4]]

\* two directory entries as the directory on disk holds them
InitDirent ==
    /\ directory = <<>> /\ phase = FALSE /\ file = <<>> /\ objs = <<>>
    /\ IdleGen /\ IdlePool /\ IdleSpan /\ IdleFilter /\ IdleDoc /\ IdleRead /\ IdleEnum
    /\ rawA \in RawEntries
    /\ rawB \in RawEntries
    /\ entA = <<>> /\ entB = <<>> /\ decoded = {}
    /\ IdleExceptDirent

\* DirEntry(rawA)
DecodeA ==
    /\ "A" \notin decoded
    /\ entA' = DirEntry(rawA)
    /\ decoded' = decoded \cup {"A"}
    /\ UNCHANGED <<exceptDirent, rawA, rawB, entB>>

\* DirEntry(rawB)
DecodeB ==
    /\ "B" \notin decoded
    /\ entB' = DirEntry(rawB)
    /\ decoded' = decoded \cup {"B"}
    /\ UNCHANGED <<exceptDirent, rawA, rawB, entA>>

NextDirent == DecodeA \/ DecodeB

SpecDirent == InitDirent /\ [][NextDirent]_vars

(* ------------------------- parseVolumeConfig --------------------------- *)
\* a line of volume.config: a comment, or a definition `volume=N scheme=http
\* size=S` with S a number of megabytes or a percentage
VolumeLines ==
    {[volume |-> 0, pct |-> FALSE, size |-> 0]}
    \cup {[volume |-> n, pct |-> p, size |-> s] : n \in {1, 2}, p \in BOOLEAN, s \in {40, 70}}

RECURSIVE LineSeqs(_)
LineSeqs(n) ==
    IF n = 0 THEN {<<>>}
    ELSE {Append(ls, l) : ls \in LineSeqs(n - 1), l \in VolumeLines}

\* line.startswith('#') or "volume=" not in line
IsComment(line) == line.volume = 0

\* `volumeNo in contents`: contents is the list of the lines, which are
\* strings, and volumeNo is an int, which equals none of them
InContents(volumeNo, lines) == \E i \in DOMAIN lines : FALSE

\* totalCacheSizeAvailable(): the sizes of the caches of STORAGE_CONFIG, summed
RECURSIVE SumOf(_)
SumOf(sizes) ==
    IF sizes = {} THEN 0
    ELSE LET x == CHOOSE y \in sizes : TRUE IN x + SumOf(sizes \ {x})

\* the dict of volume numbers with volumeNo set to v
DictSet(dict, volumeNo, v) ==
    [k \in DOMAIN dict \cup {volumeNo} |-> IF k = volumeNo THEN v ELSE dict[k]]

RECURSIVE ParseLines(_, _, _, _)
\* the loop of parseVolumeConfig from line i on, with ret and totalPercent
ParseLines(lines, i, ret, totalPercent) ==
    IF i > Len(lines) THEN [kind |-> "dict", val |-> ret]
    ELSE LET line == lines[i]
         IN  IF IsComment(line) THEN ParseLines(lines, i + 1, ret, totalPercent)
             ELSE IF InContents(line.volume, lines) THEN Raise("ConfigException")
             ELSE IF line.pct
             THEN IF STORAGE_CONFIG = {} THEN Raise("ConfigException")
                  ELSE IF totalPercent + line.size > 100 THEN Raise("ConfigException")
                  ELSE ParseLines(lines, i + 1,
                                  DictSet(ret, line.volume,
                                          (line.size * SumOf(STORAGE_CONFIG)) \div 100),
                                  totalPercent + line.size)
             ELSE ParseLines(lines, i + 1,
                             DictSet(ret, line.volume, line.size * 1048576), totalPercent)

\* a volume.config of up to MaxLines lines; storage.config was read, or not
InitCfg ==
    /\ directory = <<>> /\ phase = FALSE /\ file = <<>> /\ objs = <<>>
    /\ IdleGen /\ IdlePool /\ IdleSpan /\ IdleFilter /\ IdleDoc /\ IdleRead /\ IdleEnum
    /\ contents \in UNION {LineSeqs(n) : n \in 1..MaxLines}
    /\ STORAGE_CONFIG \in {{}, {16777216}}
    /\ vres = [kind |-> "none", val |-> <<>>]
    /\ IdleExceptCfg

\* parseVolumeConfig(contents), the whole call
ParseVolumeConfig ==
    /\ vres.kind = "none"
    /\ vres' = ParseLines(contents, 1, <<>>, 0)
    /\ UNCHANGED <<exceptCfg, contents, STORAGE_CONFIG>>

NextCfg == ParseVolumeConfig

SpecCfg == InitCfg /\ [][NextCfg]_vars

(* ---------------------------- DirEntry.valid --------------------------- *)
\* DirEntry.valid(stripe) for an entry of raw offset below 2^31, on a stripe
\* with the given phase and validityLimit; True == 1 and False == 0
valid(ent, stPhase, limit) ==
    LET off == ent._offset[1] + ent._offset[2] * 16777216
    IN  IF (IF ent.phase THEN 1 ELSE 0) = stPhase THEN off - 1 < limit
        ELSE off - 1 >= limit

\* a stripe with a directory of one row in memory: as constructed (phase and
\* validityLimit are -1), or with the phase and the validity limit of its
\* metadata
InitValid ==
    /\ directory \in {<<r>> : r \in {<<w0, w1, w2, 0, 0>> :
                          w0 \in {0, 1, 2, 6, 65535}, w1 \in {0, 1},
                          w2 \in {0, 4096, 8192, 12288}}}
    /\ \/ stripePhase = -1 /\ validityLimit = -1
       \/ stripePhase \in {0, 1} /\ validityLimit \in {0, 1, 5}
    /\ phase = (stripePhase # 0)
    /\ file = <<>> /\ objs = <<>>
    /\ IdleGen /\ IdlePool /\ IdleSpan /\ IdleFilter /\ IdleDoc /\ IdleRead /\ IdleEnum
    /\ IdleExceptValid

NextValid == HeadsCall

SpecValid == InitValid /\ [][NextValid]_vars

(* ---------------------------- unpackHeap ------------------------------- *)
\* HDRHeap.sizeof(): calcsize("IPPI?PIP" "PPi?" "PPi?" "PPi?" "i") aligned to a
\* pointer; the offset Alternate.fromBuffer passes to unpackHeap
HDRHeapSizeof == 136

\* the keys of UNPACK_FUNCS: URLImpl, HTTPImpl, MIMEFieldImpl, MIMEFieldBlockImpl
UNPACK_FUNCS == {2, 3, 4, 5}

\* an object header (Type, length) as unpackHdrHeapObjImpl decodes it, with
\* what the bytes behind it make the unpack function of its type do: "ok",
\* "struct.error" (too few bytes), "UnicodeError" (a part that does not
\* decode), "polarity" (neither 1 nor 2) or "port" (a port that int() rejects)
HdrObj(t, l, b) == [Type |-> t, length |-> l, bytes |-> b]

\* the objects a heap is made of: type 1 has no unpack function
HeapObjects ==
    {HdrObj(1, l, "ok") : l \in {0, 8, 24}}
    \cup {HdrObj(2, 0, "ok"), HdrObj(2, 12, "ok"), HdrObj(2, 8, "UnicodeError"), HdrObj(2, 8, "port")}
    \cup {HdrObj(3, 0, "ok"), HdrObj(3, 8, "ok"), HdrObj(3, 8, "struct.error"), HdrObj(3, 8, "polarity")}
    \cup {HdrObj(4, 0, "ok"), HdrObj(4, 8, "ok"), HdrObj(5, 8, "ok")}

RECURSIVE Heaps(_)
\* the heaps of exactly n pointer-sized slots, an object header in each
Heaps(n) == IF n = 0 THEN {<<>>} ELSE {Append(h, o) : h \in Heaps(n - 1), o \in HeapObjects}

\* len(heap): the HDRHeap and the slots behind it
HeapLen(h) == HDRHeapSizeof + PointerSize * Len(h)

\* the header that heap[off : off+4] holds, off being pointer-aligned
SlotAt(h, off) == h[((off - HDRHeapSizeof) \div PointerSize) + 1]

\* the exception classes that the except clause of unpackHeap names, also
\* naming the enclosing class of both
Caught_AnyValueError == {"struct.error", "UnicodeError", "ValueError"}

\* `except (struct.error, UnicodeError):`
Caught == {"struct.error", "UnicodeError"}

\* the body of the try up to the append, for the object at off: the tuple
\* appended to ret, or what is raised. unpackHdrHeapObjImpl raises
\* struct.error on fewer than 4 bytes; unpackHTTPImplHeap raises ValueError on
\* an unknown polarity and int() raises it on a non-numeric port; for a type
\* without unpack function, "%ds" % (length-4) is no format when length < 4
\* and struct.unpack needs exactly length-4 bytes
UnpackObject(h, off) ==
    IF off + 4 > HeapLen(h) THEN Raise("struct.error")
    ELSE LET o == SlotAt(h, off)
         IN  IF o.Type \in UNPACK_FUNCS
             THEN IF o.bytes = "ok" THEN [kind |-> "obj", val |-> <<o.Type, o.length>>]
                  ELSE IF o.bytes \in {"polarity", "port"} THEN Raise("ValueError")
                  ELSE Raise(o.bytes)
             ELSE IF o.length < 4 \/ off + o.length > HeapLen(h) THEN Raise("struct.error")
                  ELSE [kind |-> "obj", val |-> <<o.Type, o.length>>]

\* a heap and a declared size; unpackHeap has not been called
InitHeap ==
    /\ directory = <<>> /\ phase = FALSE /\ file = <<>> /\ objs = <<>>
    /\ IdleGen /\ IdlePool /\ IdleSpan /\ IdleFilter /\ IdleDoc /\ IdleRead /\ IdleEnum
    /\ IdleExceptHeap
    /\ heap \in UNION {Heaps(n) : n \in 0..MaxSlots}
    /\ heapSize \in {0} \cup {HDRHeapSizeof + PointerSize * k : k \in 0..(MaxSlots + 1)}
    /\ heapOffset = 0 /\ heapRet = <<>> /\ hpc = "call"

\* unpackHeap(heap, heapHdr.sizeof(), heapHdr.size, http) up to the loop: ret = []
UnpackHeapCall ==
    /\ hpc = "call"
    /\ heapOffset' = HDRHeapSizeof
    /\ heapRet' = <<>>
    /\ hpc' = "loop"
    /\ UNCHANGED <<heap, heapSize>>
    /\ UNCHANGED exceptHeap

\* one pass of `while offset < size`: the test, then the try; an exception
\* named by the except clause returns ret, any other leaves unpackHeap
HeapPass ==
    /\ hpc = "loop"
    /\ Len(heapRet) < MaxRet
    /\ IF heapOffset >= heapSize
       THEN hpc' = "returned" /\ UNCHANGED <<heapOffset, heapRet>>
       ELSE LET r == UnpackObject(heap, heapOffset)
            IN  IF r.kind = "obj"
                THEN /\ heapRet' = Append(heapRet, r.val)
                     /\ heapOffset' = align(heapOffset + r.val[2], PointerSize)
                     /\ hpc' = "loop"
                ELSE /\ hpc' = IF r.val[1] \in Caught THEN "returned" ELSE "raised"
                     /\ UNCHANGED <<heapOffset, heapRet>>
    /\ UNCHANGED <<heap, heapSize>>
    /\ UNCHANGED exceptHeap

NextHeap == UnpackHeapCall \/ HeapPass

SpecHeap == InitHeap /\ [][NextHeap]_vars

(* ------------------------------ claims --------------------------------- *)
\* the multiset of the elements of a sequence
BagOf(s) == [x \in Range(s) |-> Cardinality({i \in DOMAIN s : s[i] = x})]

\* what the enumeration is to yield for one head row: a pair per alternate when
\* the Doc has the valid magic and hlen > 0, else nothing
ClaimedPairs(d) ==
    IF DocAt(d).magic = DocMAGIC /\ DocAt(d).hlen > 0
    THEN [j \in 1..Len(DocAt(d).alts) |-> <<DocAt(d).alts[j], DocAt(d).totalLength>>]
    ELSE <<>>

RECURSIVE ClaimedObjects(_)
\* the claimed pairs of a sequence of head rows, in the order of the rows
ClaimedObjects(hs) ==
    IF hs = <<>> THEN <<>> ELSE ClaimedPairs(Head(hs)) \o ClaimedObjects(Tail(hs))

IsPrefix(s, t) == Len(s) <= Len(t) /\ s = SubSeq(t, 1, Len(s))

PoolEnded == path = "pool" /\ pc \in {"join", "done"}

\* C2: with N workers the pool consumer ends only after it has taken N None
\* sentinels off the queue, and never while a pair that a worker has put or
\* will put is undelivered.
C2_ConsumerTakesAllSentinels ==
    PoolEnded =>
        /\ count - 1 = numprocs
        /\ \A i \in DOMAIN q : q[i] = None
        /\ \A w \in 1..numprocs : Terminated(w)

\* C3: without failures, the multiset of pairs the pool enumeration has yielded
\* when it ends equals the multiset the serial enumeration yields on the stripe.
C3_ParallelEqualsSerial ==
    (path = "pool" /\ pc = "done" /\ nfail = 0) =>
        BagOf(out) = BagOf(ClaimedObjects(heads(directory, phase)))

\* C4: an enumeration during which a file operation failed never ends normally,
\* as if exhausted: the caller receives the failure.
C4_FailureSurfaces == (pc = "done" /\ path \in {"serial", "pool"}) => nfail = 0

\* a head row of the stripe points to a Doc with the corrupt magic
SomeCorruptHead ==
    \E d \in Range(heads(directory, phase)) : DocAt(d).magic = CORRUPT_MAGIC

\* C5: a head row whose Doc has the corrupt magic yields no pair and does not
\* end the enumeration: on the serial and on the pool path, when the enumeration
\* ends without a failure, the pairs of every other head row have been yielded.
C5_CorruptDocSkipped ==
    (SomeCorruptHead /\ pc = "done" /\ path \in {"serial", "pool"} /\ nfail = 0) =>
        /\ BagOf(out) = BagOf(ClaimedObjects(heads(directory, phase)))
        /\ \A d \in Range(heads(directory, phase)) :
              DocAt(d).magic = CORRUPT_MAGIC =>
                 \A i \in DOMAIN out : out[i][2] # DocAt(d).totalLength

\* the headers of a span whose stripe can be constructed and read
GoodHeaders == SelectSeq(hdrs, LAMBDA h : StripeCtor(h) = "ok" /\ StripeRead(h) = "ok")

\* C6: when the construction of a stripe or the reading of its metadata fails,
\* Span construction still succeeds, with that stripe left out of the stripe
\* list and every other declared stripe in it, in declared order.
C6_SpanSkipsBadStripe ==
    /\ spc # "raised"
    /\ spc = "built" => blocks = GoodHeaders

\* C7: every pool worker puts exactly one None on the queue, whether it exhausts
\* its slice or fails, and puts it after all of its pairs.
C7_OneSentinelPerWorker ==
    \A w \in 1..numprocs :
        /\ wnone[w] <= 1
        /\ Terminated(w) => wnone[w] = 1
        /\ wnone[w] = 1 => (Terminated(w) /\ wpend[w] = <<>>)

\* C8: once every worker has terminated, the pool consumer is not left waiting
\* on an empty queue, from where it could never end.
C8_ConsumerNotStuck ==
    ~ ( /\ path = "pool" /\ pc = "get" /\ count < numprocs
        /\ q = <<>>
        /\ \A w \in 1..numprocs : Terminated(w) )

\* the caller has dropped the pool generator
Dropped == pc \in {"dropjoin", "closed"}

\* C9 as stated: after the caller drops the pool generator no worker reads
\* another head row of its slice.
C9_WorkersStopOnDrop == Dropped => \A w \in 1..numprocs : widx[w] = dropIdx[w]

\* What the code does on a drop (C9): dropping the pool generator does not stop the workers: the close
\* returns only after every worker has terminated, and a worker that met no
\* failure has by then read every head row of its slice and put its sentinel.
C9_DropWaitsForWorkers ==
    pc = "closed" =>
        \A w \in 1..numprocs :
            /\ Terminated(w)
            /\ wpc[w] = "done" => (widx[w] = Len(wslice[w]) /\ wnone[w] = 1)

\* A drop in which work continues (C9): a dropped generator is closed and a worker has, after the drop,
\* read further head rows up to the end of its slice
C9_Witness ==
    /\ pc = "closed"
    /\ \E w \in 1..numprocs :
          wpc[w] = "done" /\ widx[w] > dropIdx[w] /\ widx[w] = Len(wslice[w])

\* rows given to the workers before worker w, k being the slice size
SliceStart(w, k) == (w - 1) * k

RECURSIVE ConcatSlices(_)
\* the slices of workers 1..n, one after the other
ConcatSlices(n) == IF n = 0 THEN <<>> ELSE ConcatSlices(n - 1) \o wslice[n]

\* C10: the pool is used with N workers on H heads only when H >= N >= 1; the
\* heads are then split into N contiguous slices, slice i < N being
\* heads[(i-1)k+1 .. ik] with k = H div N and slice N the rest; the slices
\* together are the head array and each head row is in exactly one slice.
C10_SlicesPartitionHeads ==
    path = "pool" =>
        LET hs == parHeads(directory, phase)
            H == Len(hs)
            N == numprocs
            k == H \div N
        IN  /\ H >= N /\ N >= 1
            /\ \A w \in 1..(N - 1) : wslice[w] = [j \in 1..k |-> hs[SliceStart(w, k) + j]]
            /\ wslice[N] = [j \in 1..(H - (N - 1) * k) |-> hs[SliceStart(N, k) + j]]
            /\ ConcatSlices(N) = hs
            /\ \A i \in 1..H :
                  Cardinality({w \in 1..N :
                      SliceStart(w, k) < i /\ i <= SliceStart(w, k) + Len(wslice[w])}) = 1

\* C10 witness: a pool of several workers on a number of heads that the number
\* of workers does not divide, so that the last slice is longer
C10_Witness ==
    /\ path = "pool"
    /\ numprocs >= 2
    /\ Len(parHeads(directory, phase)) % numprocs # 0
    /\ Len(wslice[numprocs]) > Len(wslice[1])

\* the pairs the caller has received that come from the slice of worker w (a
\* pair's size is 1000 times the raw offset of its head row)
OutOf(w) ==
    SelectSeq(out, LAMBDA p :
        \E i \in DOMAIN wslice[w] : rawOffset(wslice[w][i]) * 1000 = p[2])

\* C11: the pairs of one worker are yielded by the pool consumer in the order of
\* their head rows within that worker's slice: at every moment the pairs yielded
\* for a worker are a prefix of the pairs of its slice in directory order,
\* however the pairs of different workers interleave.
C11_WorkerOrderKept ==
    path = "pool" => \A w \in 1..numprocs : IsPrefix(OutOf(w), ClaimedObjects(wslice[w]))

\* C11 witness: the consumer has yielded a pair of the second worker, then one of
\* the first worker, then the pair of a later head row of the second worker
C11_Witness ==
    /\ path = "pool" /\ numprocs = 2 /\ Len(out) = 3
    /\ OutOf(1) = <<out[2]>>
    /\ OutOf(2) = <<out[1], out[3]>>
    /\ out[1][2] < out[3][2]

\* C14: a call made on a stripe whose cache holds pairs replays the cache: it
\* yields the cached pairs in their order and nothing else, leaves the cache as
\* it is, opens no file, reads no Doc and starts no worker; the file is read and
\* workers are started only by a call that found the cache empty.
C14_CacheReplayed ==
    /\ path = "cache" =>
          /\ objs # <<>>
          /\ IsPrefix(out, objs)
          /\ pc = "done" => out = objs
          /\ hidx = 0 /\ nfail = 0
          /\ \A w \in Workers : wpc[w] = "none" /\ widx[w] = 0
    /\ path \in {"serial", "pool"} => objs = out

\* C14 witness: parallelStoredObjects has replayed to its end a cache of at least
\* two pairs that holds everything a complete enumeration of the stripe yields
C14_Witness ==
    /\ method = "parallelStoredObjects" /\ path = "cache" /\ pc = "done"
    /\ Len(objs) >= 2
    /\ objs = ClaimedObjects(heads(directory, phase))
    /\ out = objs

\* the raw offset w0 | ((w1 & 0xFF) << 16) | (w4 << 24) of a row is not zero
RawOffsetNonZero(d) == d[1] # 0 \/ d[2] % 256 # 0 \/ d[5] # 0

\* bit 13 of w2 is set and bit 12 of w2 equals the phase
HeadInPhase(d, ph) ==
    /\ (d[3] \div 8192) % 2 = 1
    /\ (d[3] \div 4096) % 2 = (IF ph THEN 1 ELSE 0)

\* C19: Stripe.heads, and the filter of parallelStoredObjects, select a row
\* exactly when its raw offset is not zero, its head bit is set and its phase
\* bit equals the phase of the stripe.
C19_HeadsSelectExactly ==
    /\ "heads" \in fdone =>
          \A i \in DOMAIN directory :
              (directory[i] \in Range(hsel)) <=>
                  (RawOffsetNonZero(directory[i]) /\ HeadInPhase(directory[i], phase))
    /\ "par" \in fdone =>
          \A i \in DOMAIN directory :
              (directory[i] \in Range(psel)) <=>
                  (RawOffsetNonZero(directory[i]) /\ HeadInPhase(directory[i], phase))

\* the offsets in [a, b) that the buffer of n bytes holds, in order
OffsetsIn(a, b, n) ==
    [i \in 1..(IF (IF b < n THEN b ELSE n) > a THEN (IF b < n THEN b ELSE n) - a ELSE 0) |-> a + i - 1]

\* C20: for a first Doc (valid magic, hlen > 0) read by firstDocs, parallelObjs
\* or fetch, the bytes handed to the alternate parser are the bytes
\* [72, 72+hlen) of the fetched buffer and the payload is the bytes [72+hlen, length).
C20_SlicesAsLaidOut ==
    (dpc \in {"firstDocs", "parallelObjs", "fetch"} /\ IsFirstDoc(newDoc)) =>
        /\ info = OffsetsIn(DocSizeof, DocSizeof + newDoc.hlen, dirSize(dirent))
        /\ data = OffsetsIn(DocSizeof + newDoc.hlen, newDoc.length, dirSize(dirent))

\* Stripe.read has assigned the geometry of the stripe
GeometrySet == rstat \in {"NameError", "ValueError", "ok"}

\* copy B has the valid magic and a sync_serial greater than that of copy A
NewerB == hdrB.magic = StripeMAGIC /\ hdrB.syncSerial > hdrA.syncSerial

\* C16: Stripe.read takes the metadata from copy B exactly when the magic of
\* copy B is 0xF1D0F00D and its sync_serial is greater than that of copy A, and
\* from copy A otherwise; when B is taken the directory offset is
\* align(offsetB + sizeof + 2*segs).
C16_CopyChosen ==
    GeometrySet =>
        /\ copy = (IF NewerB THEN "B" ELSE "A")
        /\ NewerB => stripe.directoryOffset =
                         align(stripe.offset + StripeSizeof + 2 * stripe.numSegs, STORE_BLOCK_SIZE)

\* ceil(a / b) for a >= 0 and b > 0
CeilDiv(a, b) == (a + b - 1) \div b

\* one round of the iteration of section 4.4 on content, as <<buckets, segs,
\* content>>; a round that yields no segment has no result (<<>>)
IterationRound(content, S, L, avgObj) ==
    LET b0 == (L - content + S) \div (4 * avgObj)
        segs == CeilDiv(b0, 16384)
    IN  IF segs = 0 THEN <<>>
        ELSE LET buckets == CeilDiv(b0, segs)
             IN  <<buckets, segs,
                   S + 16384 * (CeilDiv(34 + segs, 4096) + CeilDiv(5 * buckets * segs, 1024) + 1)>>

\* three rounds from content = S
ThreeRounds(S, L, avgObj) ==
    LET r1 == IterationRound(S, S, L, avgObj)
        r2 == IF r1 = <<>> THEN <<>> ELSE IterationRound(r1[3], S, L, avgObj)
    IN  IF r2 = <<>> THEN <<>> ELSE IterationRound(r2[3], S, L, avgObj)

\* C17: with copy A in use, Stripe.read sets numSegs = segs, numBuckets =
\* buckets * segs, numDirEntries = 4 * numBuckets, contentOffset = content and
\* directoryOffset = align(S + sizeof + 2*segs, 8192), (buckets, segs, content)
\* being the result of the three rounds of section 4.4; for S = 0x4000,
\* L = 0x4000 * 8192 and average object size 8000 these are 1, 4182, 16728,
\* 0x60000 and 0x6000.
C17_GeometryOfThreeRounds ==
    (GeometrySet /\ copy # "B") =>
        LET S == stripe.offset
            L == stripe.length * STORE_BLOCK_SIZE
            g == ThreeRounds(S, L, avgObjSize)
        IN  /\ g # <<>>
            /\ stripe.numSegs = g[2]
            /\ stripe.numBuckets = g[1] * g[2]
            /\ stripe.numDirEntries = 4 * stripe.numBuckets
            /\ stripe.contentOffset = g[3]
            /\ stripe.directoryOffset % 8192 = 0
            /\ stripe.directoryOffset >= S + StripeSizeof + 2 * g[2]
            /\ stripe.directoryOffset < S + StripeSizeof + 2 * g[2] + 8192
            /\ (S = 16384 /\ stripe.length = 16384 /\ avgObjSize = 8000) =>
                  /\ stripe.numSegs = 1 /\ stripe.numBuckets = 4182
                  /\ stripe.numDirEntries = 16728
                  /\ stripe.contentOffset = 393216 /\ stripe.directoryOffset = 24576

\* C17 witness: read has set the geometry of the stripe of the test, and that of
\* a stripe of several segments
C17_Witness ==
    /\ GeometrySet /\ copy # "B"
    /\ \/ /\ stripe.offset = 16384 /\ stripe.length = 16384 /\ avgObjSize = 8000
          /\ stripe.numBuckets = 4182 /\ stripe.contentOffset = 393216
       \/ /\ stripe.length = 131072 /\ stripe.numSegs > 1
          /\ stripe.numBuckets > 16384

\* the first and the second step of SORdirSize on the stripe being read
FirstStep ==
    singleStep(<<0, 0, stripe.offset>>, stripe.offset,
               stripe.length * STORE_BLOCK_SIZE, avgObjSize)

SecondStep ==
    singleStep(FirstStep, stripe.offset, stripe.length * STORE_BLOCK_SIZE, avgObjSize)

\* a fourth step, applied to what SORdirSize returned
FourthStep ==
    singleStep(sor, stripe.offset, stripe.length * STORE_BLOCK_SIZE, avgObjSize)

Resident(k) == blocks[k].loaded

\* C12: when Span.storedObjects is iterated to exhaustion every stripe's
\* directory is resident afterwards exactly if it was resident before the call;
\* while a stripe is enumerated its directory is resident, the flag cleanUp is
\* set exactly if it was not resident before, every stripe enumerated earlier
\* is already back in the state in which it began (a directory that was read
\* for the enumeration is released before the next stripe is enumerated), and
\* no later stripe has been touched
C12_DirectoriesAsBefore ==
    /\ gpc = "done" => \A k \in DOMAIN blocks : Resident(k) = before[k]
    /\ gpc = "iter" =>
          /\ \A k \in DOMAIN blocks : k # bidx => Resident(k) = before[k]
          /\ pc # "idle" => Resident(bidx) /\ cleanUp = ~before[bidx]
          /\ pc = "idle" => Resident(bidx) = before[bidx] /\ ~cleanUp

\* a span of two stripes, the first not resident and the second preloaded by
\* the caller, has been enumerated to exhaustion and objects of both were
\* yielded
C12_Witness ==
    /\ gpc = "done"
    /\ before = <<FALSE, TRUE>>
    /\ blocks[1].objs # <<>> /\ blocks[2].objs # <<>>

CacheOf(k) == IF gpc = "iter" /\ k = bidx THEN objs ELSE blocks[k].objs

\* C15: the readiness of a stripe only moves forward: a directory is never
\* resident on a stripe whose metadata has not been read (read() has not
\* returned), metadata once read is never unset, and a cached object list is
\* only ever extended
C15_ReadinessMonotone ==
    /\ [](\A k \in DOMAIN blocks : Resident(k) => blocks[k].meta = "ready")
    /\ [][\A k \in DOMAIN blocks :
            /\ blocks[k].meta # "unread" => blocks'[k].meta # "unread"
            /\ IsPrefix(CacheOf(k), CacheOf(k)')]_vars

\* the alternate that the step appends to the list
Appended == current'[Len(current')]

\* C21: every alternate fromBuffer parses (its magic is accepted and its header
\* heaps parse) is appended to the list, and its fragmentOffsets are the
\* frag_count - 4 offsets read from the (frag_count - 4) * 8 bytes that follow
\* the fixed-length prefix when frag_count > 4, and empty otherwise
C21_FragmentTableRead ==
    [][(/\ apc = "call" /\ raw # <<>>
        /\ Head(raw).magic \in {AltMAGIC, AltMAGIC_ALIVE, AltMAGIC_DEAD}
        /\ Head(raw).heaps = "ok")
       => /\ Len(current') = Len(current) + 1
          /\ Appended.fragmentOffsets =
                [k \in 1..NumFrags(Head(raw)) |-> AltSizeof + PointerSize * (k - 1)]]_vars

\* the 0-based place of the last occurrence of "http" in h, -1 when there is none
LastHttp(h) ==
    LET hits == {i \in 0..(Len(h) - 4) : SubSeq(h, i + 1, i + 4) = <<"h", "t", "t", "p">>}
    IN  IF hits = {} THEN -1 ELSE CHOOSE i \in hits : \A j \in hits : j <= i

\* C22: requestURL never raises: it returns request.URL when there is one;
\* else, when the request headers are a decoded string that contains "http",
\* the headers from the last "http" to their end; else "Unknown"
C22_RequestURLNeverRaises ==
    [][\A a \in asked' \ asked :
          url' = IF a.URL # PyNone THEN a.URL
                 ELSE IF a.requestHeaders.kind = "str" /\ LastHttp(a.requestHeaders.val) >= 0
                 THEN PyStr(SubSeq(a.requestHeaders.val,
                                   LastHttp(a.requestHeaders.val) + 1,
                                   Len(a.requestHeaders.val)))
                 ELSE Unknown]_vars

\* C24: the length of the Doc header by which a fetched buffer is split (the
\* place where the info bytes start, and the place where the payload starts
\* less hlen) is 72 when FIPS is off, the hash size being 16, and more than 72
\* when FIPS is on, the hash size being 32
C24_HeaderLengthFollowsFIPS ==
    LET fits(h) == IF INK_MD5_SIZE = 16 THEN h = 72 ELSE h > 72
    IN  dpc # "read" =>
          /\ info # <<>> => fits(info[1])
          /\ data # <<>> => fits(data[1] - newDoc.hlen)

\* C25: for seg < numSegs and idx < numBuckets / numSegs, getBucket(seg, idx)
\* returns 4 rows, all of them in segment seg, that is in rows [seg*S, (seg+1)*S)
\* with S = numDirEntries / numSegs
C25_BucketInSegment ==
    (segment >= 0 /\ segment < stripe.numSegs
        /\ bucket < stripe.numBuckets \div stripe.numSegs) =>
        LET S == stripe.numDirEntries \div stripe.numSegs
        IN  /\ Len(brows) = 4
            /\ \A k \in 1..Len(brows) :
                  segment * S <= brows[k] /\ brows[k] < (segment + 1) * S

\* C26: the decoded fields of a directory entry (raw offset, length, tag, the
\* token, pinned, head and phase flags, next) determine its 10 bytes: two
\* entries that decode to the same field values are the same bytes
C26_DecodingDeterminesBytes ==
    (decoded = {"A", "B"} /\ entA = entB) => rawA = rawB

\* two definition lines of the file give the same volume number
DuplicateVolume ==
    \E i, j \in DOMAIN contents :
        i < j /\ ~IsComment(contents[i]) /\ contents[i].volume = contents[j].volume

\* C27: when two definition lines of volume.config have the same volume number
\* parseVolumeConfig raises ConfigException and returns no volume map
C27_DuplicateVolumeFails ==
    (vres.kind # "none" /\ DuplicateVolume) =>
        vres.kind = "raise" /\ vres.val = <<"ConfigException">>

PairsIn(f, d) ==
    LET doc == f[(dirOffset(d) \div 512) + 1]
    IN  IF doc.magic = DocMAGIC /\ doc.hlen > 0
        THEN [j \in 1..Len(doc.alts) |-> <<doc.alts[j], doc.totalLength>>]
        ELSE <<>>

RECURSIVE PairsOf(_, _)
\* those pairs for a sequence of head rows, in the order of the rows
PairsOf(f, hs) == IF hs = <<>> THEN <<>> ELSE PairsIn(f, Head(hs)) \o PairsOf(f, Tail(hs))

\* the pairs a complete enumeration of stripe k yields, in directory order
CompleteList(k) == PairsOf(blocks[k].file, heads(blocks[k].directory, TRUE))

\* every element of s occurs in t at least as often as in s
SubBag(s, t) ==
    \A x \in Range(s) :
        Cardinality({i \in DOMAIN s : s[i] = x}) <= Cardinality({i \in DOMAIN t : t[i] = x})

\* C29 as stated: between enumerations, a stripe's cache that is not empty
\* holds the complete list of the stripe's objects
C29_CacheIsComplete ==
    gpc = "idle" =>
        \A k \in DOMAIN blocks :
            blocks[k].objs # <<>> => BagOf(blocks[k].objs) = BagOf(CompleteList(k))

\* C29: a stripe's cache holds the pairs its populating enumeration yielded
\* to the caller and nothing else: every cached pair is an object of the
\* stripe, counted no more often than the stripe holds it; an enumeration that
\* fills the cache has cached exactly what it yielded; a serial enumeration
\* that ran to exhaustion leaves the complete list in directory order; and a
\* later call replays exactly the cache, complete or not
C29_CacheHoldsWhatWasYielded ==
    /\ \A k \in DOMAIN blocks : SubBag(CacheOf(k), CompleteList(k))
    /\ (gpc = "iter" /\ path \in {"serial", "pool"}) => objs = out
    /\ (gpc = "iter" /\ path = "serial" /\ pc = "done") => objs = CompleteList(bidx)
    /\ (gpc = "iter" /\ path = "cache") =>
          /\ IsPrefix(out, objs)
          /\ pc = "done" => out = objs

\* C29 witness: a later call has replayed to its end a cache that an earlier,
\* unfinished enumeration left with fewer pairs than the stripe holds
C29_Witness ==
    /\ gpc = "iter" /\ path = "cache" /\ pc = "done"
    /\ objs # <<>> /\ out = objs
    /\ Len(objs) < Len(CompleteList(bidx))

\* a pass of the loop of unpackHeap is taken in which the object at offset
\* makes the decoding raise
DecodingFails == hpc = "loop" /\ heapOffset < heapSize /\ UnpackObject(heap, heapOffset).kind = "raise"

C30_EveryPassAdvances ==
    [][hpc = "loop" => (hpc' # "loop" \/ heapOffset' > heapOffset)]_vars

====
